---------------------------- MODULE Spec2Model ----------------------------
(***************************************************************************)
(* Model of the book-library backend (kevinaaaquil/books): the EPUB        *)
(* inspector (utils/metadata.go), the catalog lookup (service) and the     *)
(* upload handler (handlers/upload.go) with its three-branch fan-out and   *)
(* join.  Strings the code takes apart (file names, identifiers, paths)    *)
(* are sequences of one-character strings; the empty string is << >>.      *)
(***************************************************************************)
EXTENDS Integers, Sequences, FiniteSets, Bags, TLC

(***************************************************************************)
(* Bounds of the model.                                                    *)
(***************************************************************************)
\* Longest duration, in ticks of the logical clock, of one outbound call.
MaxDur == 2

(***************************************************************************)
(* String helpers: the Go standard-library functions the code calls.       *)
(***************************************************************************)
UpperChars == <<"A","B","C","D","E","F","G","H","I","J","K","L","M",
                "N","O","P","Q","R","S","T","U","V","W","X","Y","Z">>
LowerChars == <<"a","b","c","d","e","f","g","h","i","j","k","l","m",
                "n","o","p","q","r","s","t","u","v","w","x","y","z">>

LowerChar(c) ==
    IF \E i \in 1..Len(UpperChars) : UpperChars[i] = c
    THEN LowerChars[CHOOSE i \in 1..Len(UpperChars) : UpperChars[i] = c]
    ELSE c

\* strings.ToLower
ToLower(s) == [i \in 1..Len(s) |-> LowerChar(s[i])]

\* strings.EqualFold
EqualFold(s, t) == ToLower(s) = ToLower(t)

IsSpace(c) == c \in {" ", "\t", "\n", "\r"}

\* strings.TrimSpace
TrimSpace(s) ==
    LET keep == {i \in 1..Len(s) : ~IsSpace(s[i])}
    IN  IF keep = {} THEN << >>
        ELSE LET lo == CHOOSE i \in keep : \A j \in keep : i <= j
                 hi == CHOOSE i \in keep : \A j \in keep : i >= j
             IN  SubSeq(s, lo, hi)

\* strings.HasPrefix
HasPrefix(s, p) == Len(s) >= Len(p) /\ SubSeq(s, 1, Len(p)) = p

\* strings.HasSuffix
HasSuffix(s, p) == Len(s) >= Len(p) /\ SubSeq(s, Len(s) - Len(p) + 1, Len(s)) = p

\* strings.TrimSuffix
TrimSuffix(s, p) == IF HasSuffix(s, p) THEN SubSeq(s, 1, Len(s) - Len(p)) ELSE s

\* strings.TrimPrefix
TrimPrefix(s, p) == IF HasPrefix(s, p) THEN SubSeq(s, Len(p) + 1, Len(s)) ELSE s

\* strings.Contains
Contains(s, p) == \E i \in 1..(Len(s) + 1) : HasPrefix(SubSeq(s, i, Len(s)), p)

\* strings.ReplaceAll(s, old, new) for a one-character old
ReplaceChar(s, old, new) == [i \in 1..Len(s) |-> IF s[i] = old THEN new ELSE s[i]]

IsNotHyphen(c) == c # "-"

\* strings.ReplaceAll(s, "-", "")
StripHyphens(s) == SelectSeq(s, IsNotHyphen)

\* strings.LastIndex(s, c), 1-based; 0 when c does not occur
LastIndex(s, c) ==
    LET at == {i \in 1..Len(s) : s[i] = c}
    IN  IF at = {} THEN 0 ELSE CHOOSE i \in at : \A j \in at : i >= j

\* filepath.Ext: the suffix from the last dot of the last path element
Ext(name) ==
    LET dot == LastIndex(name, ".")
        sep == LastIndex(name, "/")
    IN  IF dot = 0 \/ dot < sep THEN << >> ELSE SubSeq(name, dot, Len(name))


\* the least element of a non-empty set of numbers
MinOf(S) == CHOOSE i \in S : \A j \in S : i <= j

MaxOf(S) == CHOOSE i \in S : \A j \in S : i >= j

(***************************************************************************)
(* EPUB inspector (utils/metadata.go).  An uploaded file is its size, a    *)
(* flag telling whether zip.NewReader accepts it, and its archive entries  *)
(* in archive order.  An entry carries its name, whether it can be opened  *)
(* and read, and its content: the root element encoding/xml finds in it    *)
(* ("bad" when it is not well-formed XML), what Unmarshal decodes from it, *)
(* the text of the identifier-like elements a scan of its raw text finds,  *)
(* and its bytes.                                                          *)
(***************************************************************************)
IsDigit(c) == c \in {"0","1","2","3","4","5","6","7","8","9"}

\* sanitizeISBN: drop every rune that is not a digit
sanitizeISBN(isbn) == SelectSeq(isbn, IsDigit)

\* variant: nine digits pass for an ISBN as well
isValidISBN_nine(cleaned) == Len(cleaned) \in {9, 10, 13}

\* isValidISBN: length 13 or 10
isValidISBN(cleaned) == Len(cleaned) = 13 \/ Len(cleaned) = 10

\* normalizeZipPath
normalizeZipPath(path) == ReplaceChar(path, "\\", "/")

\* findAndReadFileFromZip: the entries (by index) whose name matches
EntryHits(file, p) ==
    {i \in 1..Len(file.entries) :
        \/ normalizeZipPath(file.entries[i].name) = p
        \/ EqualFold(normalizeZipPath(file.entries[i].name), p)}

\* findAndReadFileFromZip: index of the first entry whose name matches, or 0
FindEntry(file, path) ==
    IF EntryHits(file, normalizeZipPath(path)) = {} THEN 0
    ELSE MinOf(EntryHits(file, normalizeZipPath(path)))

ReadEntry(file, i) ==
    IF i = 0 THEN [err |-> "notfound", idx |-> 0]
    ELSE IF ~file.entries[i].readable THEN [err |-> "read", idx |-> i]
    ELSE [err |-> "nil", idx |-> i]

\* findAndReadFileFromZip: the content, or an error when the entry is missing
\* or its first match cannot be opened or read
findAndReadFileFromZip(file, path) == ReadEntry(file, FindEntry(file, path))

ContainerPath == <<"M","E","T","A","-","I","N","F","/",
                   "c","o","n","t","a","i","n","e","r",".","x","m","l">>
ContainerPathLower == ToLower(ContainerPath)

S_isbn   == <<"i","s","b","n">>
S_isbn13 == <<"i","s","b","n","-","1","3">>
S_isbn10 == <<"i","s","b","n","-","1","0">>
IsbnSchemes == {S_isbn, S_isbn13, S_isbn10}

S_identifierType == <<"i","d","e","n","t","i","f","i","e","r","-","t","y","p","e">>
S_scheme == <<"s","c","h","e","m","e">>
S_cover  == <<"c","o","v","e","r">>
S_png    == <<"p","n","g">>
S_jpgExt == <<".","j","p","g">>
S_pngExt == <<".","p","n","g">>
S_imageJpeg == <<"i","m","a","g","e","/","j","p","e","g">>
S_imagePng  == <<"i","m","a","g","e","/","p","n","g">>

\* The steps from the container to the package document, shared by both
\* extractions; each returns the error met or the index of the package entry.
PackageErr(e, opfPath) == [err |-> e, opfPath |-> opfPath, idx |-> 0]

\* xml.Unmarshal(opfContent, &pkg), given the read of the package entry
PackageAt(file, opfPath, o) ==
    IF o.err # "nil" THEN PackageErr("opf", opfPath)
    ELSE IF file.entries[o.idx].content.xml # "package" THEN PackageErr("opfxml", opfPath)
    ELSE [err |-> "nil", opfPath |-> opfPath, idx |-> o.idx]

\* xml.Unmarshal(containerFile, &container) and the first rootfile's full-path
PackageOf(file, cont) ==
    IF cont.xml # "container" THEN PackageErr("containerxml", << >>)
    ELSE IF Len(cont.rootfiles) = 0 THEN PackageErr("norootfile", << >>)
    ELSE PackageAt(file, cont.rootfiles[1],
                   findAndReadFileFromZip(file, cont.rootfiles[1]))

ContainerOf(file, c) ==
    IF c.err # "nil" THEN PackageErr("container", << >>)
    ELSE PackageOf(file, file.entries[c.idx].content)

\* ExtractISBNFromMultipartFile retries with the lower-case path
OrLower(file, c, tryLower) ==
    IF c.err # "nil" /\ tryLower
    THEN findAndReadFileFromZip(file, ContainerPathLower) ELSE c

OpenPackage(file, tryLower) ==
    IF file.size = 0 THEN PackageErr("empty", << >>)
    ELSE IF ~file.zip THEN PackageErr("notzip", << >>)
    ELSE ContainerOf(file, OrLower(file, findAndReadFileFromZip(file, ContainerPath),
                                   tryLower))

\* the candidate an identifier element gives
IsbnOfId(id) == sanitizeISBN(TrimSpace(id.value))

\* variant: the scheme attribute is not looked at
SchemeHits_none(ids) == {}

\* stage 1: identifiers with an explicit ISBN scheme
SchemeHits(ids) ==
    {i \in 1..Len(ids) :
        /\ TrimSpace(ids[i].value) # << >>
        /\ ToLower(ids[i].scheme) \in IsbnSchemes
        /\ isValidISBN(IsbnOfId(ids[i]))}

\* the identifiers (by index) whose id a refinement names
SameId(ids, refinesID) == {j \in 1..Len(ids) : ids[j].id = refinesID}

\* stage 2: the identifier an EPUB 3 refinement points at (the first one
\* with that id), or 0
RefinedId(m, ids) ==
    IF /\ TrimSpace(ToLower(m.property)) \in {S_identifierType, S_scheme}
       /\ TrimSpace(ToLower(m.content)) \in IsbnSchemes
       /\ SameId(ids, TrimPrefix(TrimSpace(m.refines), <<"#">>)) # {}
    THEN MinOf(SameId(ids, TrimPrefix(TrimSpace(m.refines), <<"#">>)))
    ELSE 0

RefineHit(ids, j) == j # 0 /\ isValidISBN(IsbnOfId(ids[j]))

RefineHits(meta, ids) ==
    {i \in 1..Len(meta) : RefineHit(ids, RefinedId(meta[i], ids))}

\* stage 3: any identifier that looks like an ISBN
AnyHits(ids) == {i \in 1..Len(ids) : isValidISBN(IsbnOfId(ids[i]))}

\* stage 4 candidates: the contents extractIdentifierContents returns that
\* extractISBNFromRawOPF accepts
RawHits(rawIdents) ==
    {i \in 1..Len(rawIdents) : isValidISBN(sanitizeISBN(TrimSpace(rawIdents[i])))}

\* extractISBNFromRawOPF
extractISBNFromRawOPF(rawIdents) ==
    IF RawHits(rawIdents) = {} THEN << >>
    ELSE sanitizeISBN(TrimSpace(rawIdents[MinOf(RawHits(rawIdents))]))

FoundISBN(v) == [isbn |-> v, err |-> "nil"]

\* variant: the raw scan follows whenever the identifiers gave nothing
ResolveISBN_rawAlways(ids, meta, rawIdents) ==
    IF SchemeHits(ids) # {} THEN FoundISBN(IsbnOfId(ids[MinOf(SchemeHits(ids))]))
    ELSE IF RefineHits(meta, ids) # {}
    THEN FoundISBN(IsbnOfId(ids[RefinedId(meta[MinOf(RefineHits(meta, ids))], ids)]))
    ELSE IF AnyHits(ids) # {} THEN FoundISBN(IsbnOfId(ids[MinOf(AnyHits(ids))]))
    ELSE IF extractISBNFromRawOPF(rawIdents) # << >>
    THEN FoundISBN(extractISBNFromRawOPF(rawIdents))
    ELSE [isbn |-> << >>, err |-> "noisbn"]

\* the four stages of ExtractISBNFromMultipartFile, in order
ResolveISBN(ids, meta, rawIdents) ==
    IF SchemeHits(ids) # {} THEN FoundISBN(IsbnOfId(ids[MinOf(SchemeHits(ids))]))
    ELSE IF RefineHits(meta, ids) # {}
    THEN FoundISBN(IsbnOfId(ids[RefinedId(meta[MinOf(RefineHits(meta, ids))], ids)]))
    ELSE IF AnyHits(ids) # {} THEN FoundISBN(IsbnOfId(ids[MinOf(AnyHits(ids))]))
    ELSE IF Len(ids) = 0 /\ extractISBNFromRawOPF(rawIdents) # << >>
    THEN FoundISBN(extractISBNFromRawOPF(rawIdents))
    ELSE [isbn |-> << >>, err |-> "noisbn"]

\* variant: every failure is reported as the absence of an ISBN
ISBNIn_flat(file, p) ==
    IF p.err # "nil" THEN [isbn |-> << >>, err |-> "noisbn"]
    ELSE ResolveISBN(file.entries[p.idx].content.ids,
                     file.entries[p.idx].content.meta,
                     file.entries[p.idx].content.rawIdents)

ISBNIn(file, p) ==
    IF p.err # "nil" THEN [isbn |-> << >>, err |-> p.err]
    ELSE ResolveISBN(file.entries[p.idx].content.ids,
                     file.entries[p.idx].content.meta,
                     file.entries[p.idx].content.rawIdents)

\* ExtractISBNFromMultipartFile
ExtractISBNFromMultipartFile(file) == ISBNIn(file, OpenPackage(file, TRUE))

NoCover(e) == [bytes |-> << >>, mediaType |-> << >>, err |-> e]

\* the meta elements (by index) naming the cover
CoverMetas(meta) ==
    {i \in 1..Len(meta) : EqualFold(meta[i].name, S_cover) /\ meta[i].content # << >>}

CoverID(meta) == IF CoverMetas(meta) = {} THEN << >> ELSE meta[MinOf(CoverMetas(meta))].content

\* the manifest items (by index) with the cover's id
CoverItems(items, coverID) == {i \in 1..Len(items) : items[i].id = coverID}

\* the directory of the package document; the whole path when it has no "/"
OpfDir(opfPath) ==
    IF LastIndex(opfPath, "/") > 0
    THEN SubSeq(opfPath, 1, LastIndex(opfPath, "/")) ELSE opfPath

CoverPath(opfPath, href) == ReplaceChar(OpfDir(opfPath) \o href, "\\", "/")

\* variant: the declared media type is returned as it stands
CoverAt_noDefault(file, item, f) ==
    IF f.err # "nil" THEN NoCover("nocoverfile")
    ELSE [bytes |-> file.entries[f.idx].content.data,
          mediaType |-> item.mediaType, err |-> "nil"]

\* the read of the cover entry, and the media type's default
CoverAt(file, item, f) ==
    IF f.err # "nil" THEN NoCover("nocoverfile")
    ELSE [bytes |-> file.entries[f.idx].content.data,
          mediaType |-> IF item.mediaType = << >> THEN S_imageJpeg ELSE item.mediaType,
          err |-> "nil"]

CoverOfItem(file, opfPath, item) ==
    IF item.href = << >> THEN NoCover("nocoveritem")
    ELSE CoverAt(file, item, findAndReadFileFromZip(file, CoverPath(opfPath, item.href)))

\* variant: the two lookups report each other's failure
CoverOfID_swapped(file, opfPath, items, coverID) ==
    IF coverID = << >> THEN NoCover("nocoveritem")
    ELSE IF CoverItems(items, coverID) = {} THEN NoCover("nocovermeta")
    ELSE CoverOfItem(file, opfPath, items[MinOf(CoverItems(items, coverID))])

CoverOfID(file, opfPath, items, coverID) ==
    IF coverID = << >> THEN NoCover("nocovermeta")
    ELSE IF CoverItems(items, coverID) = {} THEN NoCover("nocoveritem")
    ELSE CoverOfItem(file, opfPath, items[MinOf(CoverItems(items, coverID))])

CoverIn(file, p) ==
    IF p.err # "nil" THEN NoCover(p.err)
    ELSE CoverOfID(file, p.opfPath, file.entries[p.idx].content.items,
                   CoverID(file.entries[p.idx].content.meta))

\* ExtractCoverFromEPUBBytes
ExtractCoverFromEPUBBytes(file) == CoverIn(file, OpenPackage(file, FALSE))

(***************************************************************************)
(* Archive fixtures: the uploads the handler is exercised with.            *)
(***************************************************************************)
NoContent ==
    [xml |-> "bad", rootfiles |-> << >>, ids |-> << >>, meta |-> << >>,
     items |-> << >>, rawIdents |-> << >>, data |-> << >>]

P_opf      == <<"O","E","B","P","S","/","c","o","n","t","e","n","t",".","o","p","f">>
P_coverJpg == <<"O","E","B","P","S","/","i","m","a","g","e","s","/","c","o","v","e","r",".","j","p","g">>
P_coverPng == <<"O","E","B","P","S","/","c",".","p","n","g">>
H_coverJpg == <<"i","m","a","g","e","s","/","c","o","v","e","r",".","j","p","g">>
H_coverPng == <<"c",".","p","n","g">>
V_isbn13   == <<"9","7","8","-","0","-","1","3","-","4","1","9","0","4","4","-","0">>
V_uuid     == <<"u","r","n",":","u","u","i","d",":","1","2","3">>
V_coverId  == <<"c","o","v","e","r","-","i","m","g">>
B_jpg      == <<"J","P","G">>
B_png      == <<"P","N","G">>

ContainerEntry ==
    [name |-> ContainerPath, readable |-> TRUE,
     content |-> [NoContent EXCEPT !.xml = "container", !.rootfiles = <<P_opf>>]]

OpfEntry(ids, meta, items) ==
    [name |-> P_opf, readable |-> TRUE,
     content |-> [NoContent EXCEPT !.xml = "package", !.ids = ids,
                                   !.meta = meta, !.items = items]]

BlobEntry(path, data) ==
    [name |-> path, readable |-> TRUE, content |-> [NoContent EXCEPT !.data = data]]

IdIsbn == [id |-> <<"p">>, scheme |-> <<"I","S","B","N">>, value |-> V_isbn13]
IdUuid == [id |-> <<"u">>, scheme |-> << >>, value |-> V_uuid]
MetaCover == [name |-> S_cover, property |-> << >>, refines |-> << >>,
              content |-> V_coverId]
ItemJpg == [id |-> V_coverId, href |-> H_coverJpg, mediaType |-> << >>]
ItemPng == [id |-> V_coverId, href |-> H_coverPng, mediaType |-> S_imagePng]

\* zero bytes
F_empty == [bytes |-> <<"f0">>, size |-> 0, zip |-> FALSE, entries |-> << >>]
\* not a ZIP archive
F_garbage == [bytes |-> <<"f1">>, size |-> 1, zip |-> FALSE, entries |-> << >>]
\* a package document with no identifier and no cover
F_plain ==
    [bytes |-> <<"f2">>, size |-> 1, zip |-> TRUE,
     entries |-> <<ContainerEntry, OpfEntry(<< >>, << >>, << >>)>>]
\* a scheme-tagged ISBN and a JPEG cover
F_full ==
    [bytes |-> <<"f3">>, size |-> 1, zip |-> TRUE,
     entries |-> <<ContainerEntry, OpfEntry(<<IdUuid, IdIsbn>>, <<MetaCover>>, <<ItemJpg>>),
                   BlobEntry(P_coverJpg, B_jpg)>>]
\* an ISBN and no cover
F_isbnOnly ==
    [bytes |-> <<"f4">>, size |-> 1, zip |-> TRUE,
     entries |-> <<ContainerEntry, OpfEntry(<<IdIsbn>>, << >>, << >>)>>]
\* a PNG cover and no ISBN
F_coverOnly ==
    [bytes |-> <<"f5">>, size |-> 1, zip |-> TRUE,
     entries |-> <<ContainerEntry, OpfEntry(<<IdUuid>>, <<MetaCover>>, <<ItemPng>>),
                   BlobEntry(P_coverPng, B_png)>>]
\* a cover entry of zero bytes
F_emptyCover ==
    [bytes |-> <<"f6">>, size |-> 1, zip |-> TRUE,
     entries |-> <<ContainerEntry, OpfEntry(<< >>, <<MetaCover>>, <<ItemPng>>),
                   BlobEntry(P_coverPng, << >>)>>]

Files == {F_empty, F_garbage, F_plain, F_full, F_isbnOnly, F_coverOnly, F_emptyCover}

(***************************************************************************)
(* Catalog lookup (service.FetchMetadataByISBN).                           *)
(***************************************************************************)
NilMeta ==
    [nil |-> TRUE, Title |-> << >>, Authors |-> << >>, Publisher |-> << >>,
     PublishDate |-> << >>, ISBN |-> << >>, PageCount |-> 0, CoverURL |-> << >>,
     ThumbnailURL |-> << >>, Edition |-> << >>, Preface |-> << >>, Category |-> << >>,
     Categories |-> << >>, RatingAverage |-> 0, RatingCount |-> 0]

\* volumeInfo of the first item of a catalog reply
Vi(title, subtitle, identifiers, categories) ==
    [Title |-> title, Subtitle |-> subtitle, Authors |-> <<<<"A">>>>,
     Publisher |-> <<"P">>, PublishedDate |-> <<"2","0","1","5">>,
     Description |-> <<" ","D"," ">>, PageCount |-> 7, Categories |-> categories,
     IndustryIdentifiers |-> identifiers, AverageRating |-> 4, RatingsCount |-> 9]

V_isbn10 == <<"0","1","3","4","1","9","0","4","4","0">>

\* what the HTTP GET to the catalog comes back with
CatalogReplies ==
    { [status |-> "neterr", totalItems |-> 0, items |-> << >>],
      [status |-> "non200", totalItems |-> 0, items |-> << >>],
      [status |-> "badjson", totalItems |-> 0, items |-> << >>],
      [status |-> "ok", totalItems |-> 0, items |-> << >>],
      [status |-> "ok", totalItems |-> 1,
       items |-> <<Vi(<<"T">>, <<"S">>, << >>, <<<<"C">>>>)>>],
      [status |-> "ok", totalItems |-> 1,
       items |-> <<Vi(<<"T">>, << >>,
                      <<[Type |-> "OTHER", Identifier |-> <<"x">>],
                        [Type |-> "ISBN_10", Identifier |-> V_isbn10]>>, << >>)>>],
      [status |-> "ok", totalItems |-> 1,
       items |-> <<Vi(<< >>, << >>,
                      <<[Type |-> "ISBN_13", Identifier |-> << >>]>>, << >>)>>] }

S_olBase == <<"o","l",":","/","b","/","i","s","b","n","/">>

\* url.PathEscape on the characters identifiers are made of
EscapeChar(c) ==
    IF c = " " THEN <<"%","2","0">> ELSE IF c = "/" THEN <<"%","2","F">> ELSE <<c>>

RECURSIVE PathEscape(_)
PathEscape(s) == IF s = << >> THEN << >> ELSE EscapeChar(Head(s)) \o PathEscape(Tail(s))

\* openLibraryCoverURL
openLibraryCoverURL(isbn, size) ==
    LET clean == StripHyphens(TrimSpace(isbn))
    IN  IF TrimSpace(isbn) = << >> \/ clean = << >> THEN << >>
        ELSE S_olBase \o PathEscape(clean) \o <<"-", size, ".","j","p","g">>

\* FetchMetadataByISBN, given the cleaned isbn and the reply of the GET
FetchMetadataByISBN(isbn, reply) ==
    IF reply.status # "ok" \/ reply.totalItems = 0 \/ Len(reply.items) = 0
    THEN NilMeta
    ELSE
      LET vi    == reply.items[1]
          isbnIds == {i \in 1..Len(vi.IndustryIdentifiers) :
                         vi.IndustryIdentifiers[i].Type \in {"ISBN_13", "ISBN_10"}}
          mIsbn == IF isbnIds = {} THEN isbn
                   ELSE vi.IndustryIdentifiers[MinOf(isbnIds)].Identifier
      IN  [nil |-> FALSE,
           Title |-> IF vi.Subtitle # << >>
                     THEN vi.Title \o <<":", " ">> \o vi.Subtitle ELSE vi.Title,
           Authors |-> vi.Authors, Publisher |-> vi.Publisher,
           PublishDate |-> vi.PublishedDate, ISBN |-> mIsbn,
           PageCount |-> vi.PageCount,
           CoverURL |-> IF mIsbn # << >> THEN openLibraryCoverURL(mIsbn, "L") ELSE << >>,
           ThumbnailURL |-> IF mIsbn # << >> THEN openLibraryCoverURL(mIsbn, "M") ELSE << >>,
           Edition |-> << >>, Preface |-> TrimSpace(vi.Description),
           Category |-> IF Len(vi.Categories) > 0 THEN vi.Categories[1] ELSE << >>,
           Categories |-> vi.Categories,
           RatingAverage |-> vi.AverageRating, RatingCount |-> vi.RatingsCount]

(***************************************************************************)
(* downloadImage (handlers/upload.go): what the GET of a cover URL yields. *)
(***************************************************************************)
DownloadReplies ==
    { [status |-> "neterr", body |-> << >>, contentType |-> << >>],
      [status |-> "non200", body |-> B_jpg, contentType |-> S_imageJpeg],
      [status |-> "readerr", body |-> << >>, contentType |-> << >>],
      [status |-> "ok", body |-> << >>, contentType |-> S_imageJpeg],
      [status |-> "ok", body |-> B_jpg, contentType |-> << >>],
      [status |-> "ok", body |-> B_png, contentType |-> S_imagePng] }

downloadImage(reply) ==
    IF reply.status # "ok" THEN [body |-> << >>, ct |-> << >>, err |-> "err"]
    ELSE [body |-> reply.body,
          ct |-> IF reply.contentType = << >> THEN S_imageJpeg ELSE reply.contentType,
          err |-> "nil"]


(***************************************************************************)
(* Upload requests.                                                        *)
(***************************************************************************)
N_epub      == <<"b",".","e","p","u","b">>
N_epubUpper == <<"B",".","E","P","U","B">>
N_pdf       == <<"b",".","p","d","f">>
N_txt       == <<"b",".","t","x","t">>
N_noExt     == <<"b">>
FileNames   == {N_epub, N_epubUpper, N_pdf, N_txt, N_noExt}

S_extEpub == <<".","e","p","u","b">>
S_extPdf  == <<".","p","d","f">>

\* contentTypeEPUB, contentTypePDF
contentTypeEPUB == <<"a","p","p","l","i","c","a","t","i","o","n","/",
                     "e","p","u","b","+","z","i","p">>
contentTypePDF  == <<"a","p","p","l","i","c","a","t","i","o","n","/","p","d","f">>
CT_pdfParam == contentTypePDF \o <<";","q">>
CT_pdfx     == contentTypePDF \o <<"x">>
CT_text     == <<"t","e","x","t","/","p","l","a","i","n">>
ContentTypes == {contentTypeEPUB, contentTypePDF, CT_pdfParam, CT_pdfx, CT_text, << >>}

S_books  == <<"b","o","o","k","s","/">>
S_covers == <<"b","o","o","k","s","/","c","o","v","e","r","s","/">>

GoodRequest(f, c, x) ==
    [method |-> "POST", authed |-> TRUE, formOK |-> TRUE, hasFile |-> TRUE,
     s3Configured |-> TRUE, readOK |-> TRUE, email |-> <<"e">>,
     filename |-> f, ctype |-> c, file |-> x]

\* requests that fail one of the checks made before the file is looked at
FaultyRequests ==
    LET g == GoodRequest(N_epub, contentTypeEPUB, F_full)
    IN  { [g EXCEPT !.method = "GET"], [g EXCEPT !.authed = FALSE],
          [g EXCEPT !.formOK = FALSE], [g EXCEPT !.hasFile = FALSE],
          [g EXCEPT !.s3Configured = FALSE], [g EXCEPT !.readOK = FALSE] }

Requests ==
    {GoodRequest(f, c, x) : f \in FileNames, c \in ContentTypes, x \in Files}
        \cup FaultyRequests

NoRequest == GoodRequest(<< >>, << >>, F_empty)

(***************************************************************************)
(* Object storage keys (service/s3.go) and book records (models/book.go).  *)
(***************************************************************************)
\* the empty key ""
NoKey == [prefix |-> << >>, uuid |-> "", ext |-> << >>]

\* S3Service.Upload: prefix + uuid.New() + filepath.Ext(originalFilename);
\* the uuid of a call is unique to the call site within a request
UploadKey(prefix, site, originalFilename) ==
    [prefix |-> prefix, uuid |-> site, ext |-> Ext(originalFilename)]

\* models.Book with every field at its zero value (CreatedAt is left out)
ZeroBook ==
    [ID |-> 0, Title |-> << >>, Authors |-> << >>, Publisher |-> << >>,
     PublishDate |-> << >>, ISBN |-> << >>, PageCount |-> 0, CoverURL |-> << >>,
     ThumbnailURL |-> << >>, CoverS3Key |-> NoKey, Edition |-> << >>,
     Preface |-> << >>, Category |-> << >>, Categories |-> << >>,
     RatingAverage |-> 0, RatingCount |-> 0, Format |-> "",
     S3Key |-> NoKey, OriginalName |-> << >>, UploadedByEmail |-> << >>,
     ViewByGuest |-> FALSE]

\* the enrichment fields of a record are all empty
NoEnrichment(b) ==
    /\ b.Authors = << >> /\ b.Publisher = << >> /\ b.PublishDate = << >>
    /\ b.ISBN = << >> /\ b.PageCount = 0 /\ b.CoverURL = << >>
    /\ b.ThumbnailURL = << >> /\ b.Edition = << >> /\ b.Preface = << >>
    /\ b.Category = << >> /\ b.Categories = << >>
    /\ b.RatingAverage = 0 /\ b.RatingCount = 0

NoResponse == [status |-> 0, error |-> "", id |-> 0, title |-> << >>, noISBNFound |-> FALSE]

ErrorResponse(code, msg) == [NoResponse EXCEPT !.status = code, !.error = msg]

\* the operations a request can make outside the handler's own memory
Sites == {"putA", "extractISBN", "lookup", "extractCover", "putC",
          "download", "putR", "insert", "delete"}

\* the outbound calls of the three branches, which take time
Timed == {"putA", "lookup", "putC"}

VARIABLES
    db,             \* the books collection: a set of records
    s3,             \* object storage: a set of stored objects
    req,            \* the request being served
    pc,             \* where the handler's own goroutine is
    format, contentType, fileNameTitle,   \* Upload's locals set by classification
    wg,             \* the WaitGroup counter
    bookKey, bookKeyErr,                  \* written by branch A
    meta,           \* written by branch B
    coverS3Key,     \* written by branch C
    noISBNFound, book, img,               \* Upload's locals after the join
    resp,           \* the response written
    pcA, pcB, pcC,  \* where each branch goroutine is
    isbn,           \* branch B's local
    cover,          \* branch C's locals
    rem,            \* time left of each outbound call in flight
    dur,            \* how long each outbound call of a branch took in all
    elapsed,        \* ticks of the clock since the request was received
    joinedAt,       \* the clock when wg.Wait returned
    started,        \* how many times each operation was begun
    completed,      \* how many times each operation returned
    outcome,        \* how each operation last ended: "none", "ok", "err"
    ctx,            \* r.Context(): "live" until the client goes away
    inFlightAtCancel,   \* the branch calls that were in flight when it did
    isbnOut, coverOut,  \* what the inspector returned when called on its own
    inspected,      \* what the inspector returns for each file, worked out once
    buffer,         \* the byte buffer the inspector is called on, on its own
    calls,          \* how many times each extraction was called on it
    pending,        \* the requests to the books and users API being served
    deleted,        \* the keys S3Service.Delete was called with: a bag
    users,          \* the users collection: a set of records
    userSeq         \* how many users were ever inserted

locals  == <<format, contentType, fileNameTitle, noISBNFound, book, img>>
slots   == <<bookKey, bookKeyErr, meta, coverS3Key>>
branchs == <<pcA, pcB, pcC, isbn, cover>>
clock   == <<rem, dur, elapsed, joinedAt>>
ghost   == <<started, completed, outcome>>
cancel  == <<ctx, inFlightAtCancel>>
inspect == <<isbnOut, coverOut, inspected, buffer, calls>>
api     == <<pending, deleted, users, userSeq>>
aside   == <<cancel, inspect, api>>
vars    == <<db, s3, req, pc, wg, resp, locals, slots, branchs, clock, ghost, aside>>

\* Branch B up to the catalog GET, for each file a request can carry: what
\* ExtractISBNFromMultipartFile returns, and the ISBN as FetchMetadataByISBN
\* cleans it before it builds the query
ISBNOfFile ==
    [f \in Files |->
        [r |-> ExtractISBNFromMultipartFile(f),
         cleaned |-> StripHyphens(TrimSpace(ExtractISBNFromMultipartFile(f).isbn))]]

CoverExt(ct) == IF Contains(ct, S_png) THEN S_pngExt ELSE S_jpgExt

\* Branch C up to the PUT, for each file a request can carry: what
\* ExtractCoverFromEPUBBytes returns, and the extension of the cover's name
CoverOfFile ==
    [f \in Files |->
        [r |-> ExtractCoverFromEPUBBytes(f),
         ext |-> CoverExt(ExtractCoverFromEPUBBytes(f).mediaType)]]

\* the inspector has not been called on its own
NotCalled == [err |-> "notcalled"]

\* the most requests to the books and users API served at a time
MaxClients == 2
Clients == 1..MaxClients

\* no request: the locals of a handler of the books or users API before it
\* is called (found: what a lookup by id returned, at most one record)
NoValue == "nil"
NoArgs == [email |-> NoValue, role |-> NoValue, flag |-> FALSE]
NoCall ==
    [op |-> "none", role |-> "", caller |-> 0, id |-> 0, arg |-> NoArgs,
     pc |-> "idle", found |-> {}, status |-> 0, body |-> {}, issued |-> 0]

NoCoverLocal == [bytes |-> << >>, ct |-> << >>, ext |-> << >>]

\* nothing has happened yet
Blank ==
    /\ pc = "idle"
    /\ format = "" /\ contentType = << >> /\ fileNameTitle = << >>
    /\ wg = 0
    /\ bookKey = NoKey /\ bookKeyErr = "nil" /\ meta = NilMeta /\ coverS3Key = NoKey
    /\ noISBNFound = FALSE /\ book = ZeroBook /\ img = NoCoverLocal
    /\ resp = NoResponse
    /\ pcA = "none" /\ pcB = "none" /\ pcC = "none"
    /\ isbn = << >> /\ cover = NoCoverLocal
    /\ rem = [c \in Timed |-> 0] /\ dur = [c \in Timed |-> 0]
    /\ elapsed = 0 /\ joinedAt = 0
    /\ started = [c \in Sites |-> 0] /\ completed = [c \in Sites |-> 0]
    /\ outcome = [c \in Sites |-> "none"]
    /\ ctx = "live" /\ inFlightAtCancel = {}
    /\ isbnOut = NotCalled /\ coverOut = NotCalled
    /\ inspected = [isbn |-> ISBNOfFile, cover |-> CoverOfFile]
    /\ buffer = req.file /\ calls = [isbn |-> 0, cover |-> 0]
    /\ pending = [c \in Clients |-> NoCall] /\ deleted = EmptyBag

\* the state before the first request, with empty collections and bucket
Fresh ==
    /\ db = {} /\ s3 = {}
    /\ users = {} /\ userSeq = 0
    /\ Blank

Init == req = NoRequest /\ Fresh

\* bookkeeping of the operations: those in b begin, those in e return, and o
\* gives how the returning ones ended
Log(b, e, o) ==
    /\ started' = [c \in Sites |-> started[c] + IF c \in b THEN 1 ELSE 0]
    /\ completed' = [c \in Sites |-> completed[c] + IF c \in e THEN 1 ELSE 0]
    /\ outcome' = [c \in Sites |-> IF c \in DOMAIN o THEN o[c] ELSE outcome[c]]

OkErr(ok) == IF ok THEN "ok" ELSE "err"

\* a request arrives
Receive(r) ==
    /\ pc = "idle"
    /\ req' = r /\ pc' = "start"
    /\ UNCHANGED <<db, s3, wg, resp, locals, slots, branchs, clock, ghost>>
    /\ UNCHANGED aside

Reply(r) == /\ resp' = r /\ pc' = "done"

\* Upload, from its first line to the classification of the file
allowedByExt(ext)  == ext = S_extEpub \/ ext = S_extPdf
allowedByMime(pct) == HasPrefix(pct, contentTypeEPUB) \/ HasPrefix(pct, contentTypePDF)
\* variant: a file is EPUB only when neither indicator says PDF
IsEpub_unlessPdf(ext, pct) ==
    /\ ext = S_extEpub \/ HasPrefix(pct, contentTypeEPUB)
    /\ ~(ext = S_extPdf \/ HasPrefix(pct, contentTypePDF))

IsEpub(ext, pct)   == ext = S_extEpub \/ HasPrefix(pct, contentTypeEPUB)

\* variant: the title keeps the extension
FileNameTitle_whole(name) == name

\* strings.TrimSuffix(header.Filename, filepath.Ext(header.Filename))
FileNameTitle(name) == TrimSuffix(name, Ext(name))

\* strings.ToLower(strings.TrimSpace(filepath.Ext(header.Filename))), for each
\* file name a request can carry
LowerExt == [n \in FileNames |-> ToLower(TrimSpace(Ext(n)))]

Validate ==
    /\ pc = "start"
    /\ LET ext == LowerExt[req.filename]
           pct == req.ctype
       IN  IF req.method # "POST"
           THEN Reply(ErrorResponse(405, "method not allowed")) /\ UNCHANGED locals
           ELSE IF ~req.authed
           THEN Reply(ErrorResponse(401, "unauthorized")) /\ UNCHANGED locals
           ELSE IF ~req.formOK
           THEN Reply(ErrorResponse(400, "failed to parse multipart form"))
                /\ UNCHANGED locals
           ELSE IF ~req.hasFile
           THEN Reply(ErrorResponse(400, "missing file")) /\ UNCHANGED locals
           ELSE IF ~req.s3Configured
           THEN Reply(ErrorResponse(503, "upload not configured (missing S3)"))
                /\ UNCHANGED locals
           ELSE IF ~allowedByExt(ext) /\ ~allowedByMime(pct)
           THEN Reply(ErrorResponse(400, "only epub and pdf are allowed"))
                /\ UNCHANGED locals
           ELSE IF ~req.readOK
           THEN Reply(ErrorResponse(500, "failed to read file")) /\ UNCHANGED locals
           ELSE /\ pc' = "spawnA"
                /\ format' = IF IsEpub(ext, pct) THEN "epub" ELSE "pdf"
                /\ contentType' = IF IsEpub(ext, pct) THEN contentTypeEPUB
                                  ELSE contentTypePDF
                /\ fileNameTitle' = FileNameTitle(req.filename)
                /\ UNCHANGED <<resp, noISBNFound, book, img>>
    /\ UNCHANGED <<db, s3, req, wg, slots, branchs, clock, ghost>>
    /\ UNCHANGED aside


\* variant: the enrichment branches are launched whatever the format
AfterSpawnA_always == "spawnB"

\* if format == "epub" { ... }: branches B and C are launched for EPUBs only
AfterSpawnA == IF format = "epub" THEN "spawnB" ELSE "wait"

\* go func() { ... h.S3.Upload(book) ... }()
SpawnA ==
    /\ pc = "spawnA"
    /\ wg' = wg + 1
    /\ pcA' = "ready"
    /\ pc' = AfterSpawnA
    /\ UNCHANGED <<db, s3, req, resp, locals, slots, pcB, pcC, isbn, cover, clock, ghost>>
    /\ UNCHANGED aside

\* variant: the book is stored before the enrichment is started
SpawnBGuard_afterPut == pc = "spawnB" /\ pcA = "done"

\* the handler reaches the second go statement as soon as the first is made
SpawnBGuard == pc = "spawnB"

\* wg.Add(2); go func() { ... ISBN, catalog ... }()
SpawnB ==
    /\ SpawnBGuard
    /\ wg' = wg + 2
    /\ pcB' = "ready"
    /\ pc' = "spawnC"
    /\ UNCHANGED <<db, s3, req, resp, locals, slots, pcA, pcC, isbn, cover, clock, ghost>>
    /\ UNCHANGED aside

\* go func() { ... cover ... }()
SpawnC ==
    /\ pc = "spawnC"
    /\ pcC' = "ready"
    /\ pc' = "wait"
    /\ UNCHANGED <<db, s3, req, wg, resp, locals, slots, pcA, pcB, isbn, cover, clock, ghost>>
    /\ UNCHANGED aside

\* an outbound call of a branch begins and will take d ticks
Flight(c, d) ==
    /\ rem' = [rem EXCEPT ![c] = d]
    /\ dur' = [dur EXCEPT ![c] = d]
    /\ UNCHANGED <<elapsed, joinedAt>>

\* r.Context() has not been cancelled
Live == ctx = "live"

\* a call made with r.Context() returns: with either result once its time is
\* up, and with the context's error as soon as the context is cancelled
Returns(c, ok) == IF Live THEN rem[c] = 0 ELSE ~ok

\* the calls of the branches that are in flight
InFlight ==
    {c \in Timed : \/ c = "putA" /\ pcA = "put"
                   \/ c = "lookup" /\ pcB = "lookup"
                   \/ c = "putC" /\ pcC = "put"}

\* the client goes away while the request is being served: net/http cancels
\* r.Context()
Cancel ==
    /\ pc \notin {"idle", "done"} /\ Live
    /\ ctx' = "cancelled"
    /\ inFlightAtCancel' = InFlight
    /\ UNCHANGED <<db, s3, req, pc, wg, resp, locals, slots, branchs, clock, ghost,
                   inspect, api>>

\* variant: a branch returns without telling the WaitGroup
Done_skipped(w) == w

\* defer wg.Done()
Done(w) == w - 1

\* variant: a branch whose call failed makes the call again
BranchReturns_retry(ok) == IF ok THEN "done" ELSE "ready"

\* a branch goroutine returns after its one call, whatever came back
BranchReturns(ok) == "done"

\* branch A: the PUT of the book begins
ABegin(d) ==
    /\ pcA = "ready"
    /\ pcA' = "put"
    /\ Flight("putA", d)
    /\ Log({"putA"}, {}, << >>)
    /\ UNCHANGED <<db, s3, req, pc, wg, resp, locals, slots, pcB, pcC, isbn, cover>>
    /\ UNCHANGED aside

StoredObject(key, ct, body, site) ==
    [key |-> key, contentType |-> ct, body |-> body, by |-> site]

\* branch A: the PUT returns; bookKey, bookKeyErr = k, e; wg.Done()
AEnd(ok) ==
    /\ pcA = "put" /\ Returns("putA", ok)
    /\ LET key == UploadKey(S_books, "putA", req.filename)
       IN  IF ok
           THEN /\ s3' = s3 \cup {StoredObject(key, contentType, req.file.bytes, "putA")}
                /\ bookKey' = key /\ bookKeyErr' = "nil"
           ELSE /\ s3' = s3
                /\ bookKey' = NoKey /\ bookKeyErr' = "err"
    /\ wg' = Done(wg)
    /\ pcA' = BranchReturns(ok)
    /\ Log({}, {"putA"}, [c \in {"putA"} |-> OkErr(ok)])
    /\ UNCHANGED <<db, req, pc, resp, locals, meta, coverS3Key, pcB, pcC, isbn, cover, clock>>
    /\ UNCHANGED aside

\* branch B: ISBN extraction, then the catalog GET begins
BStart(d) ==
    /\ pcB = "ready"
    /\ LET r == inspected.isbn[req.file].r
           cleaned == inspected.isbn[req.file].cleaned
       IN  IF r.err # "nil" \/ r.isbn = << >>
           THEN /\ pcB' = "done" /\ wg' = Done(wg)
                /\ Log({"extractISBN"}, {"extractISBN"}, [c \in {"extractISBN"} |-> "err"])
                /\ UNCHANGED <<isbn, clock>>
           ELSE IF cleaned = << >>
           THEN /\ pcB' = "done" /\ wg' = Done(wg)
                /\ Log({"extractISBN", "lookup"}, {"extractISBN", "lookup"},
                       [c \in {"extractISBN", "lookup"} |->
                            IF c = "lookup" THEN "err" ELSE "ok"])
                /\ UNCHANGED <<isbn, clock>>
           ELSE /\ pcB' = "lookup" /\ wg' = wg
                /\ isbn' = cleaned
                /\ Flight("lookup", d)
                /\ Log({"extractISBN", "lookup"}, {"extractISBN"},
                       [c \in {"extractISBN"} |-> "ok"])
    /\ UNCHANGED <<db, s3, req, pc, resp, locals, slots, pcA, pcC, cover>>
    /\ UNCHANGED aside

\* branch B: the catalog GET returns; meta = m on success; wg.Done()
BEnd(reply) ==
    /\ pcB = "lookup" /\ rem["lookup"] = 0
    /\ LET m == FetchMetadataByISBN(isbn, reply)
       IN  /\ meta' = IF m.nil THEN meta ELSE m
           /\ Log({}, {"lookup"}, [c \in {"lookup"} |-> OkErr(~m.nil)])
    /\ wg' = Done(wg)
    /\ pcB' = BranchReturns(~FetchMetadataByISBN(isbn, reply).nil)
    /\ UNCHANGED <<db, s3, req, pc, resp, locals, bookKey, bookKeyErr, coverS3Key,
                   pcA, pcC, isbn, cover, clock>>
    /\ UNCHANGED aside

\* branch C: cover extraction, then the PUT of the cover begins
CStart(d) ==
    /\ pcC = "ready"
    /\ LET r == inspected.cover[req.file].r
       IN  IF r.err # "nil" \/ Len(r.bytes) = 0
           THEN /\ pcC' = "done" /\ wg' = Done(wg)
                /\ Log({"extractCover"}, {"extractCover"},
                       [c \in {"extractCover"} |-> "err"])
                /\ UNCHANGED <<cover, clock>>
           ELSE /\ pcC' = "put" /\ wg' = wg
                /\ cover' = [bytes |-> r.bytes, ct |-> r.mediaType,
                             ext |-> inspected.cover[req.file].ext]
                /\ Flight("putC", d)
                /\ Log({"extractCover", "putC"}, {"extractCover"},
                       [c \in {"extractCover"} |-> "ok"])
    /\ UNCHANGED <<db, s3, req, pc, resp, locals, slots, pcA, pcB, isbn>>
    /\ UNCHANGED aside

\* branch C: the PUT returns; coverS3Key = key on success; wg.Done()
CEnd(ok) ==
    /\ pcC = "put" /\ Returns("putC", ok)
    /\ LET key == UploadKey(S_covers, "putC", S_cover \o cover.ext)
       IN  IF ok
           THEN /\ s3' = s3 \cup {StoredObject(key, cover.ct, cover.bytes, "putC")}
                /\ coverS3Key' = key
           ELSE /\ s3' = s3 /\ coverS3Key' = coverS3Key
    /\ wg' = Done(wg)
    /\ pcC' = BranchReturns(ok)
    /\ Log({}, {"putC"}, [c \in {"putC"} |-> OkErr(ok)])
    /\ UNCHANGED <<db, req, pc, resp, locals, bookKey, bookKeyErr, meta,
                   pcA, pcB, isbn, cover, clock>>
    /\ UNCHANGED aside


\* variant: the record takes the cover's key as its storage key
NewBook_coverKey ==
    [ZeroBook EXCEPT !.Format = format, !.S3Key = coverS3Key,
                     !.OriginalName = req.filename, !.UploadedByEmail = req.email,
                     !.Title = fileNameTitle]

\* variant: the record starts with the ISBN branch B extracted
NewBook_extractedISBN ==
    [ZeroBook EXCEPT !.Format = format, !.S3Key = bookKey,
                     !.OriginalName = req.filename, !.UploadedByEmail = req.email,
                     !.Title = fileNameTitle, !.ISBN = isbn]

\* the record as built right after the join
NewBook ==
    [ZeroBook EXCEPT !.Format = format, !.S3Key = bookKey,
                     !.OriginalName = req.filename, !.UploadedByEmail = req.email,
                     !.Title = fileNameTitle]

\* the catalog's fields copied into the record
WithMeta(b, m) ==
    [b EXCEPT !.Title = IF m.Title # << >> THEN m.Title ELSE @,
              !.Authors = m.Authors, !.Publisher = m.Publisher,
              !.PublishDate = m.PublishDate, !.ISBN = m.ISBN,
              !.PageCount = m.PageCount, !.CoverURL = m.CoverURL,
              !.ThumbnailURL = m.ThumbnailURL, !.Edition = m.Edition,
              !.Preface = m.Preface, !.Category = m.Category,
              !.Categories = m.Categories, !.RatingAverage = m.RatingAverage,
              !.RatingCount = m.RatingCount]

\* variant: the catalog's cover is re-hosted even when branch C stored one
WantsRehost_always == ~meta.nil /\ meta.CoverURL # << >>

\* the re-host of the catalog's cover is attempted
WantsRehost == coverS3Key = NoKey /\ ~meta.nil /\ meta.CoverURL # << >>

\* variant: the join gives up on the other branches once the primary PUT failed
JoinGuard_failFast == wg = 0 \/ bookKeyErr # "nil"

\* variant: the handler waits for the primary PUT only
JoinGuard_primaryOnly == pcA = "done"

\* wg.Wait() returns
JoinGuard == wg = 0

\* variant: the error of the primary PUT is never looked at
PrimaryFailed_unchecked == FALSE

\* variant: a missing catalog result fails the request like a failed PUT
PrimaryFailed_orNoMeta == bookKeyErr # "nil" \/ (format = "epub" /\ meta.nil)

\* if bookKeyErr != nil
PrimaryFailed == bookKeyErr # "nil"

\* variant: the objects of the failed request are deleted again
AfterStorageError_cleanup(objects) == {}

\* object storage after the storage error was answered: http.Error and
\* return, no h.S3.Delete
AfterStorageError(objects) == objects

\* wg.Wait(), the check of bookKeyErr and the assembly of the record, up to
\* the download of the catalog's cover or the insert
Join ==
    /\ pc = "wait" /\ JoinGuard
    /\ joinedAt' = elapsed
    /\ IF PrimaryFailed
       THEN /\ Reply(ErrorResponse(500, "failed to upload to storage"))
            /\ s3' = AfterStorageError(s3)
            /\ UNCHANGED locals
       ELSE /\ resp' = resp /\ s3' = s3
            /\ IF format = "epub"
               THEN /\ noISBNFound' = meta.nil
                    /\ book' = [(IF meta.nil THEN NewBook ELSE WithMeta(NewBook, meta))
                                  EXCEPT !.CoverS3Key = coverS3Key]
                    /\ pc' = IF WantsRehost THEN "download" ELSE "insert"
               ELSE /\ noISBNFound' = noISBNFound
                    /\ book' = NewBook
                    /\ pc' = "insert"
            /\ UNCHANGED <<format, contentType, fileNameTitle, img>>
    /\ UNCHANGED <<db, req, wg, slots, branchs, rem, dur, elapsed, ghost>>
    /\ UNCHANGED aside

\* downloadImage(meta.CoverURL, 10s)
Download(reply) ==
    /\ pc = "download"
    /\ LET r == downloadImage(reply)
       IN  IF r.err = "nil" /\ Len(r.body) > 0
           THEN /\ img' = [bytes |-> r.body, ct |-> r.ct, ext |-> CoverExt(r.ct)]
                /\ pc' = "rehost"
                /\ Log({"download"}, {"download"}, [c \in {"download"} |-> "ok"])
           ELSE /\ img' = img
                /\ pc' = "insert"
                /\ Log({"download"}, {"download"}, [c \in {"download"} |-> "err"])
    /\ UNCHANGED <<db, s3, req, wg, resp, format, contentType, fileNameTitle,
                   noISBNFound, book, slots, branchs, clock>>
    /\ UNCHANGED aside

\* the PUT of the downloaded cover
RehostPut(ok) ==
    /\ pc = "rehost" /\ (ok => Live)
    /\ LET key == UploadKey(S_covers, "putR", S_cover \o img.ext)
       IN  IF ok
           THEN /\ s3' = s3 \cup {StoredObject(key, img.ct, img.bytes, "putR")}
                /\ book' = [book EXCEPT !.CoverS3Key = key]
           ELSE /\ s3' = s3 /\ book' = book
    /\ pc' = "insert"
    /\ Log({"putR"}, {"putR"}, [c \in {"putR"} |-> OkErr(ok)])
    /\ UNCHANGED <<db, req, wg, resp, format, contentType, fileNameTitle,
                   noISBNFound, img, slots, branchs, clock>>
    /\ UNCHANGED aside

\* variant: the objects of the failed request are deleted again
AfterPersistError_cleanup(objects) == {}

\* object storage after the persist error was answered: http.Error and
\* return, no h.S3.Delete
AfterPersistError(objects) == objects

\* DB.InsertBook and the response
Insert(ok) ==
    /\ pc = "insert" /\ (ok => Live)
    /\ IF ok
       THEN LET id == Cardinality(db) + 1
            IN  /\ db' = db \cup {[book EXCEPT !.ID = id]}
                /\ book' = [book EXCEPT !.ID = id]
                /\ s3' = s3
                /\ Reply([status |-> 201, error |-> "", id |-> id,
                          title |-> book.Title, noISBNFound |-> noISBNFound])
       ELSE /\ db' = db /\ book' = book
            /\ s3' = AfterPersistError(s3)
            /\ Reply(ErrorResponse(500, "failed to save book record"))
    /\ Log({"insert"}, {"insert"}, [c \in {"insert"} |-> OkErr(ok)])
    /\ UNCHANGED <<req, wg, format, contentType, fileNameTitle,
                   noISBNFound, img, slots, branchs, clock>>
    /\ UNCHANGED aside

\* every step of the handler and its branches that begins an outbound call
\* lasting d ticks, and every step that takes no time
Step(d) ==
    \/ \E r \in Requests : Receive(r)
    \/ Validate
    \/ SpawnA
    \/ SpawnB
    \/ SpawnC
    \/ ABegin(d)
    \/ \E ok \in BOOLEAN : AEnd(ok)
    \/ BStart(d)
    \/ \E reply \in CatalogReplies : BEnd(reply)
    \/ CStart(d)
    \/ \E ok \in BOOLEAN : CEnd(ok)
    \/ Join
    \/ \E reply \in DownloadReplies : Download(reply)
    \/ \E ok \in BOOLEAN : RehostPut(ok)
    \/ \E ok \in BOOLEAN : Insert(ok)

\* Every interleaving of the goroutines; calls return at any time.
Next ==
    \/ Step(0)
    \/ Cancel

Spec == Init /\ [][Next]_vars

\* some goroutine can take a step now: the handler is not blocked in
\* wg.Wait(), or a branch has not yet made its call, or a call has returned
CanStep ==
    \/ pc \in {"idle", "start", "spawnA", "spawnC", "download", "rehost", "insert"}
    \/ SpawnBGuard
    \/ pc = "wait" /\ JoinGuard
    \/ pcA = "ready" \/ pcB = "ready" \/ pcC = "ready"
    \/ pcA = "put" /\ (rem["putA"] = 0 \/ ~Live)
    \/ pcB = "lookup" /\ rem["lookup"] = 0
    \/ pcC = "put" /\ (rem["putC"] = 0 \/ ~Live)

\* Time passes: only when no goroutine can take a step, i.e. each is blocked
\* in an outbound call or in wg.Wait(); every call in flight gets one tick older.
Tick ==
    /\ ~CanStep
    /\ \E c \in Timed : rem[c] > 0
    /\ rem' = [c \in Timed |-> IF rem[c] > 0 THEN rem[c] - 1 ELSE 0]
    /\ elapsed' = elapsed + 1
    /\ UNCHANGED <<db, s3, req, pc, wg, resp, locals, slots, branchs, dur, joinedAt, ghost>>
    /\ UNCHANGED aside

NextTimed ==
    \/ \E d \in 1..MaxDur : Step(d)
    \/ Cancel
    \/ Tick

\* the steps of each goroutine
Handler ==
    \/ Validate \/ SpawnA \/ SpawnB \/ SpawnC \/ Join
    \/ \E reply \in DownloadReplies : Download(reply)
    \/ \E ok \in BOOLEAN : RehostPut(ok)
    \/ \E ok \in BOOLEAN : Insert(ok)
BranchA == ABegin(0) \/ \E ok \in BOOLEAN : AEnd(ok)
BranchB == BStart(0) \/ \E reply \in CatalogReplies : BEnd(reply)
BranchC == CStart(0) \/ \E ok \in BOOLEAN : CEnd(ok)

\* Every goroutine that can run is run in the end, and every outbound call
\* returns in the end: with a reply, an error or its client's timeout.
Fairness ==
    /\ WF_vars(Handler) /\ WF_vars(BranchA) /\ WF_vars(BranchB) /\ WF_vars(BranchC)

SpecLive == Init /\ [][Next]_vars /\ Fairness

\* The same handler with a clock: outbound calls of the branches take 1..MaxDur
\* ticks and everything else takes none.
SpecTimed == Init /\ [][NextTimed]_vars


(***************************************************************************)
(* The inspector on its own: ExtractISBNFromMultipartFile and              *)
(* ExtractCoverFromEPUBBytes applied to a range of archives.               *)
(***************************************************************************)
\* the most identifier elements a package document of the range has
MaxIds == 2
\* the most calls of each extraction on one buffer
MaxCalls == 2

P_rootOpf     == <<"c","o","n","t","e","n","t",".","o","p","f">>
P_rootCover   == <<"i","m","a","g","e","s","/","c","o","v","e","r",".","j","p","g">>
P_containerUp == <<"M","E","T","A","-","I","N","F","/","C","O","N","T","A","I","N","E","R",".","X","M","L">>
P_containerBs == <<"M","E","T","A","-","I","N","F","\\","c","o","n","t","a","i","n","e","r",".","x","m","l">>
H_coverBs     == <<"i","m","a","g","e","s","\\","c","o","v","e","r",".","j","p","g">>
V_nine        == <<"1","2","3","4","5","6","7","8","9">>
V_eleven      == <<"1","2","3","4","5","6","7","8","9","0","1">>
V_ref13       == <<"9","7","8","1","4","9","1","9","3","5","5","6","9">>
V_spaced10    == <<" ","0","-","1","3","-","4","1","9","0","4","4","-","0"," ">>
B_root        == <<"R","O","O","T">>

IdBare10 == [id |-> <<"t">>, scheme |-> << >>, value |-> V_spaced10]
IdShort  == [id |-> <<"s">>, scheme |-> <<"i","s","b","n","-","1","0">>, value |-> V_nine]
IdLong   == [id |-> <<"l">>, scheme |-> << >>, value |-> V_eleven]
IdRef    == [id |-> <<"r">>, scheme |-> << >>, value |-> V_ref13]
IdPool   == {IdIsbn, IdUuid, IdBare10, IdShort, IdLong, IdRef}

MetaRefine ==
    [name |-> << >>, property |-> S_identifierType, refines |-> <<"#","r">>,
     content |-> <<"I","S","B","N","-","1","3">>]
MetaRefineShort ==
    [name |-> << >>, property |-> S_scheme, refines |-> <<"#","l">>, content |-> S_isbn]
MetaCoverCaps == [MetaCover EXCEPT !.name = <<"C","o","v","e","r">>]
MetaCoverBlank == [MetaCover EXCEPT !.content = << >>]
MetaOther == [MetaCover EXCEPT !.name = <<"o","t","h","e","r">>]

ItemOther   == [id |-> <<"x">>, href |-> H_coverPng, mediaType |-> S_imagePng]
ItemBs      == [id |-> V_coverId, href |-> H_coverBs, mediaType |-> S_imageJpeg]
ItemNoHref  == [id |-> V_coverId, href |-> << >>, mediaType |-> S_imageJpeg]

\* every sequence over S of length at most n
SeqsUpTo(S, n) == UNION {[1..k -> S] : k \in 0..n}

Archive(entries) == [bytes |-> <<"a">>, size |-> 1, zip |-> TRUE, entries |-> entries]

ContainerAt(name, rootfiles) ==
    [name |-> name, readable |-> TRUE,
     content |-> [NoContent EXCEPT !.xml = "container", !.rootfiles = rootfiles]]

OpfAt(path, ids, metas, items, raw) ==
    [name |-> path, readable |-> TRUE,
     content |-> [NoContent EXCEPT !.xml = "package", !.ids = ids, !.meta = metas,
                                   !.items = items, !.rawIdents = raw]]

\* well-formed archives whose package documents differ in their identifiers,
\* refinements and raw identifier-like elements
IsbnArchives ==
    {Archive(<<ContainerEntry, OpfAt(P_opf, ids, m, << >>, raw)>>) :
        ids \in SeqsUpTo(IdPool, MaxIds),
        m \in {<< >>, <<MetaRefine>>, <<MetaRefineShort, MetaRefine>>},
        raw \in {<< >>, <<V_eleven, V_spaced10>>}}

\* well-formed archives whose package documents, in a directory or at the
\* root, differ in their cover meta, manifest and image entries
CoverArchives ==
    {Archive(<<ContainerAt(ContainerPath, <<o>>), OpfAt(o, << >>, m, items, << >>)>>
             \o blobs) :
        o \in {P_opf, P_rootOpf},
        m \in {<< >>, <<MetaOther>>, <<MetaCover>>, <<MetaCoverCaps>>,
               <<MetaCoverBlank, MetaCover>>, <<MetaCoverBlank>>},
        items \in {<< >>, <<ItemJpg>>, <<ItemOther, ItemPng>>, <<ItemOther>>,
                   <<ItemBs>>, <<ItemNoHref, ItemJpg>>},
        blobs \in {<< >>, <<BlobEntry(P_coverJpg, B_jpg)>>,
                   <<BlobEntry(P_rootCover, B_root)>>,
                   <<BlobEntry(P_coverJpg, B_jpg), BlobEntry(P_rootCover, B_root)>>,
                   <<BlobEntry(P_coverPng, B_png)>>}}

FullOpf == OpfAt(P_opf, <<IdIsbn>>, <<MetaCover>>, <<ItemJpg>>, << >>)
Unreadable(e) == [e EXCEPT !.readable = FALSE]
Unparseable(e) == [e EXCEPT !.content.xml = "bad"]

\* archives that fail at each stage before the package document is read,
\* and archives whose container is found under another spelling of its path
BrokenArchives ==
    {F_empty, F_garbage,
     Archive(<< >>),
     Archive(<<FullOpf>>),
     Archive(<<Unreadable(ContainerEntry), FullOpf>>),
     Archive(<<Unparseable(ContainerEntry), FullOpf>>),
     Archive(<<ContainerAt(ContainerPath, << >>), FullOpf>>),
     Archive(<<ContainerEntry>>),
     Archive(<<ContainerEntry, Unreadable(FullOpf)>>),
     Archive(<<ContainerEntry, Unparseable(FullOpf)>>),
     Archive(<<ContainerAt(ContainerPathLower, <<P_opf>>), FullOpf,
               BlobEntry(P_coverJpg, B_jpg)>>),
     Archive(<<ContainerAt(P_containerUp, <<P_opf>>), FullOpf,
               BlobEntry(P_coverJpg, B_jpg)>>),
     Archive(<<ContainerAt(P_containerBs, <<P_opf>>), FullOpf,
               BlobEntry(P_coverJpg, B_jpg)>>)}

Archives == IsbnArchives \cup CoverArchives \cup BrokenArchives

\* one archive of the range is handed to the inspector
InitInspect ==
    /\ req \in {GoodRequest(N_epub, contentTypeEPUB, f) : f \in Archives}
    /\ Fresh

\* variant: reading the buffer uses it up
AfterRead_consumed(b) == [b EXCEPT !.size = 0]

\* the buffer after an extraction read it: bytes.NewReader and zip.NewReader
\* read the slice and leave it as it is
AfterRead(b) == b

\* utils.ExtractISBNFromMultipartFile(bytes.NewReader(fileBytes))
ReadISBN ==
    /\ calls.isbn < MaxCalls
    /\ isbnOut' = ExtractISBNFromMultipartFile(buffer)
    /\ buffer' = AfterRead(buffer)
    /\ calls' = [calls EXCEPT !.isbn = @ + 1]
    /\ UNCHANGED <<db, s3, req, pc, wg, resp, locals, slots, branchs, clock, ghost,
                   cancel, coverOut, inspected, api>>

\* utils.ExtractCoverFromEPUBBytes(fileBytes)
ReadCover ==
    /\ calls.cover < MaxCalls
    /\ coverOut' = ExtractCoverFromEPUBBytes(buffer)
    /\ buffer' = AfterRead(buffer)
    /\ calls' = [calls EXCEPT !.cover = @ + 1]
    /\ UNCHANGED <<db, s3, req, pc, wg, resp, locals, slots, branchs, clock, ghost,
                   cancel, isbnOut, inspected, api>>

NextInspect ==
    \/ ReadISBN
    \/ ReadCover

SpecInspect == InitInspect /\ [][NextInspect]_vars


(***************************************************************************)
(* Properties of the upload handler.                                       *)
(***************************************************************************)
\* the handler has passed wg.Wait()
PastJoin == pc \in {"download", "rehost", "insert", "done"} /\ pcA # "none"

\* the request got past validation and has been answered
Answered == pc = "done" /\ pcA # "none"

\* the records the request inserted
Inserted == {b \in db : b.ID = resp.id}

\* C1: if the primary-file PUT (branch A) fails, the request fails with the
\* storage-upload error and no record is inserted, whatever branches B and C
\* did; and a launched request fails only through branch A or the insert.
C1_PrimaryFailureFatal ==
    Answered =>
        /\ outcome["putA"] = "err" =>
              /\ resp.status = 500 /\ resp.error = "failed to upload to storage"
              /\ db = {} /\ started["insert"] = 0
        /\ resp.error = "failed to upload to storage" => outcome["putA"] = "err"
        /\ (resp.status # 201 /\ outcome["putA"] = "ok") => outcome["insert"] = "err"

\* branch A failed although the catalog lookup and the cover PUT succeeded
C1_Witness ==
    /\ Answered /\ outcome["putA"] = "err"
    /\ outcome["lookup"] = "ok" /\ outcome["putC"] = "ok"
    /\ resp.status = 500

\* C2: every inserted record has a non-empty S3Key, and that key is the key
\* of an object the primary-file PUT of the request stored.
C2_RecordHasPrimaryKey ==
    \A b \in db :
        /\ b.S3Key # NoKey
        /\ \E o \in s3 : o.key = b.S3Key /\ o.by = "putA"

\* a record exists beside a cover object stored under another key
C2_Witness ==
    /\ db # {}
    /\ \E o \in s3 : o.by = "putC"

\* C3: for an EPUB whose primary PUT succeeded the insert is always attempted,
\* and when it succeeds the request answers 201 with the record created, for
\* every outcome of ISBN extraction, catalog lookup, cover extraction, cover
\* PUT and cover re-hosting; the only error left is the insert's own.
C3_EnrichmentNeverFatal ==
    (Answered /\ format = "epub" /\ outcome["putA"] = "ok") =>
        /\ started["insert"] = 1
        /\ outcome["insert"] = "ok" => (resp.status = 201 /\ Inserted # {})
        /\ outcome["insert"] = "err" => resp.error = "failed to save book record"

\* 201 although the cover PUT, and the re-host PUT after it, failed
C3_Witness ==
    /\ Answered /\ format = "epub" /\ resp.status = 201
    /\ outcome["lookup"] = "ok" /\ outcome["putC"] = "err"
    /\ outcome["download"] = "ok" /\ outcome["putR"] = "err"

\* C4: once the handler is past the join every launched branch has finished
\* and every outbound call a branch began has returned; a failure of one
\* branch does not let the join pass while another is still running.
C4_JoinWaitsForAll ==
    PastJoin =>
        /\ pcA = "done"
        /\ format = "epub" => (pcB = "done" /\ pcC = "done")
        /\ \A c \in Timed : started[c] = completed[c]
        /\ wg = 0

\* the primary PUT has failed and the lookup and the cover PUT are in flight
C4_Witness ==
    /\ pcA = "done" /\ bookKeyErr = "err"
    /\ pcB = "lookup" /\ pcC = "put" /\ pc = "wait"

\* C5: for an EPUB all three branches are launched before the handler waits,
\* and the time from the request to the return of wg.Wait() is at most the
\* longest of the three outbound calls, not their sum.
C5_BoundedBySlowest ==
    /\ (pc = "wait" /\ format = "epub") => (pcA # "none" /\ pcB # "none" /\ pcC # "none")
    /\ PastJoin => joinedAt <= MaxOf({dur[c] : c \in Timed})

\* the three outbound calls are in flight together while time passes
C5_Witness ==
    /\ pcA = "put" /\ pcB = "lookup" /\ pcC = "put"
    /\ elapsed >= 1 /\ \A c \in Timed : rem[c] >= 1


\* C6: for an EPUB the response flag noISBNFound is true exactly when ISBN
\* extraction yielded no ISBN, whatever the catalog lookup did afterwards.
C6_FlagIffNoISBN ==
    (Answered /\ format = "epub" /\ resp.status = 201) =>
        (resp.noISBNFound <=> outcome["extractISBN"] = "err")

\* C7: for a file classified as PDF only branch A is launched: no ISBN or
\* cover extraction, no catalog lookup, no cover PUT and no re-hosting ever
\* happens, and the inserted record has empty enrichment and cover fields and
\* noISBNFound false.
C7_PdfOnlyBranchA ==
    (pc \notin {"idle", "start"} /\ format = "pdf") =>
        /\ pcB = "none" /\ pcC = "none"
        /\ \A c \in {"extractISBN", "lookup", "extractCover", "putC", "download", "putR"} :
              started[c] = 0
        /\ \A o \in s3 : o.by = "putA"
        /\ \A b \in db : NoEnrichment(b) /\ b.CoverS3Key = NoKey
        /\ ~resp.noISBNFound

\* a PDF-classified upload that holds an EPUB with an ISBN and a cover is stored
C7_Witness ==
    /\ pc = "done" /\ format = "pdf" /\ resp.status = 201
    /\ req.file = F_full /\ db # {}

\* the extension of the request as the handler compares it, and the media type
\* its part declares (the content type up to its parameters)
ReqExt == ToLower(TrimSpace(Ext(req.filename)))
MediaTypeOf(ct) ==
    LET semi == {i \in 1..Len(ct) : ct[i] = ";"}
    IN  TrimSpace(IF semi = {} THEN ct ELSE SubSeq(ct, 1, MinOf(semi) - 1))

\* the request passes every check made before the format is looked at
WellFormed ==
    /\ pc # "idle" /\ req.method = "POST" /\ req.authed /\ req.formOK
    /\ req.hasFile /\ req.s3Configured

\* nothing was done for the request but rejecting it as an unsupported format
RejectedUntouched ==
    /\ pcA = "none" /\ pcB = "none" /\ pcC = "none"
    /\ \A c \in Sites : started[c] = 0
    /\ s3 = {} /\ db = {}
    /\ pc = "done" => (resp.status = 400 /\ resp.error = "only epub and pdf are allowed")

\* C8 as stated: a file whose extension is neither .epub nor .pdf and whose
\* declared content type is neither application/epub+zip nor application/pdf
\* is rejected before any work begins.
C8_RejectedUnlessEpubOrPdf ==
    (/\ WellFormed
     /\ ReqExt \notin {S_extEpub, S_extPdf}
     /\ MediaTypeOf(req.ctype) \notin {contentTypeEPUB, contentTypePDF})
        => RejectedUntouched

\* C9: an EPUB from which neither an ISBN nor a cover can be extracted, with
\* the primary PUT and the insert succeeding, yields a record titled with the
\* file name without its extension, with empty enrichment fields and
\* CoverS3Key, with S3Key set, and a response with noISBNFound true.
C9_UnextractableEpub ==
    (/\ Answered /\ format = "epub"
     /\ ExtractISBNFromMultipartFile(req.file).err # "nil"
     /\ ExtractCoverFromEPUBBytes(req.file).err # "nil"
     /\ outcome["putA"] = "ok" /\ outcome["insert"] = "ok")
        => /\ resp.status = 201 /\ resp.noISBNFound
           /\ Inserted # {}
           /\ \A b \in Inserted :
                 /\ b.Title \o Ext(req.filename) = req.filename
                 /\ resp.title = b.Title
                 /\ NoEnrichment(b)
                 /\ b.CoverS3Key = NoKey
                 /\ b.S3Key # NoKey

\* an upload that is not a ZIP archive, named b.epub, has been stored
C9_Witness ==
    /\ Answered /\ req.file = F_garbage /\ req.filename = N_epub
    /\ resp.status = 201 /\ resp.title = <<"b">>

\* C10: the re-host (download of the catalog's cover URL, then a PUT) is
\* attempted only when branch C produced no cover key and the catalog result
\* has a cover URL; when the download or the PUT fails the upload still
\* succeeds, CoverS3Key stays empty and the record keeps the external URL.
C10_RehostBestEffort ==
    /\ started["download"] > 0 =>
          (coverS3Key = NoKey /\ ~meta.nil /\ meta.CoverURL # << >>)
    /\ started["putR"] > 0 => outcome["download"] = "ok"
    /\ (/\ pc = "done" /\ started["download"] > 0
        /\ (outcome["download"] = "err" \/ outcome["putR"] = "err")
        /\ outcome["insert"] = "ok")
          => /\ resp.status = 201
             /\ Inserted # {}
             /\ \A b \in Inserted :
                   /\ b.CoverS3Key = NoKey
                   /\ b.CoverURL = meta.CoverURL /\ b.CoverURL # << >>

\* the image was downloaded, its PUT failed, and the upload succeeded
C10_Witness ==
    /\ pc = "done" /\ outcome["download"] = "ok" /\ outcome["putR"] = "err"
    /\ resp.status = 201


\* C11: when the request is cancelled while branches are in flight, every
\* outbound call that was in flight is aborted: none of the primary PUT, the
\* catalog lookup and the cover PUT runs on to a successful completion.
C11_CancelAbortsAll ==
    \A c \in inFlightAtCancel : outcome[c] # "ok"

\* every branch that was launched has returned
Finished == {pcA, pcB, pcC} \subseteq {"none", "done"}

\* C12: each result variable is written by one branch only (bookKey and
\* bookKeyErr by A, meta by B, coverS3Key by C) in a step of that branch
\* alone; the handler leaves wg.Wait() only when every branch has returned,
\* and no result variable changes from then on, so the handler's reads never
\* overlap a write.
C12_DisjointSlots ==
    [][/\ (bookKey' # bookKey \/ bookKeyErr' # bookKeyErr) =>
              (pcA = "put" /\ pcA' = "done" /\ UNCHANGED <<pc, pcB, pcC, meta, coverS3Key>>)
       /\ meta' # meta =>
              (pcB = "lookup" /\ pcB' = "done"
                 /\ UNCHANGED <<pc, pcA, pcC, bookKey, bookKeyErr, coverS3Key>>)
       /\ coverS3Key' # coverS3Key =>
              (pcC = "put" /\ pcC' = "done"
                 /\ UNCHANGED <<pc, pcA, pcB, bookKey, bookKeyErr, meta>>)
       /\ (pc = "wait" /\ pc' # "wait") => Finished
       /\ PastJoin => (Finished /\ UNCHANGED slots)]_vars

\* all three branches have written their results and the handler is past the join
C12_Witness ==
    /\ PastJoin /\ bookKey # NoKey /\ ~meta.nil /\ coverS3Key # NoKey

\* C13: every request that was received is answered in the end: no branch
\* blocks the handler for ever and the join is passed.
C13_EventuallyAnswered == (pc # "idle") ~> (pc = "done")

\* an EPUB whose three branches all made their calls has been answered
C13_Witness ==
    /\ pc = "done" /\ format = "epub"
    /\ \A c \in Timed : completed[c] = 1

\* C14: no retries: each of the primary PUT, the ISBN extraction, the catalog
\* lookup, the cover extraction and the cover PUT of branch C is begun at
\* most once per request, the lookup only after the one ISBN extraction and
\* the cover PUT only after the one cover extraction, whatever fails.
C14_SingleAttempt ==
    /\ \A c \in {"putA", "extractISBN", "lookup", "extractCover", "putC"} :
          started[c] <= 1
    /\ started["lookup"] <= completed["extractISBN"]
    /\ started["putC"] <= completed["extractCover"]

\* the primary PUT, the lookup and the cover PUT have all failed
C14_Witness ==
    /\ pc = "done"
    /\ outcome["putA"] = "err" /\ outcome["lookup"] = "err" /\ outcome["putC"] = "err"


(***************************************************************************)
(* Properties of the inspector.                                            *)
(***************************************************************************)
\* the digits of a string, and whether their number makes an ISBN
Digits(s) == SelectSeq(s, LAMBDA c : c \in {"0","1","2","3","4","5","6","7","8","9"})
IsbnLength(s) == Len(Digits(s)) \in {10, 13}

\* the package document of the archive handed to the inspector, once the
\* container and package stages have passed
Opened == OpenPackage(req.file, TRUE).err = "nil"
Pkg == req.file.entries[OpenPackage(req.file, TRUE).idx].content

\* the identifier elements (by index) whose value has an ISBN's length
ValidIds == {i \in 1..Len(Pkg.ids) : IsbnLength(Pkg.ids[i].value)}
ValidRaw == {i \in 1..Len(Pkg.rawIdents) : IsbnLength(Pkg.rawIdents[i])}

\* C15: a candidate is accepted if and only if its digits number 10 or 13:
\* every ISBN returned is the digits of a candidate of the document and has
\* length 10 or 13; a document with a candidate of such a length among its
\* identifiers (or, having no identifier element, among its raw
\* identifier-like elements) yields an ISBN; and when every candidate has
\* another length (9, 11, none) all are skipped and no ISBN is found.
C15_TenOrThirteenDigits ==
    isbnOut # NotCalled =>
        /\ isbnOut.err = "nil" =>
              /\ Digits(isbnOut.isbn) = isbnOut.isbn
              /\ Len(isbnOut.isbn) \in {10, 13}
              /\ \/ \E i \in ValidIds : Digits(Pkg.ids[i].value) = isbnOut.isbn
                 \/ \E i \in ValidRaw : Digits(Pkg.rawIdents[i]) = isbnOut.isbn
        /\ (Opened /\ ValidIds # {}) => isbnOut.err = "nil"
        /\ (Opened /\ Pkg.ids = << >> /\ ValidRaw # {}) => isbnOut.err = "nil"
        /\ (Opened /\ ValidIds = {} /\ (Pkg.ids # << >> \/ ValidRaw = {})) =>
              (isbnOut.err = "noisbn" /\ isbnOut.isbn = << >>)

\* a scheme-tagged identifier of 9 digits was skipped and the 10-digit
\* identifier after it returned
C15_Witness ==
    /\ isbnOut # NotCalled /\ Opened
    /\ Pkg.ids = <<IdShort, IdBare10>>
    /\ isbnOut.err = "nil" /\ isbnOut.isbn = Digits(V_spaced10)


\* the identifiers (by index) that carry an ISBN scheme and an ISBN's length
TaggedIds == {i \in ValidIds : ToLower(Pkg.ids[i].scheme) \in IsbnSchemes}

\* the identifiers (by index) that the k-th meta element designates as ISBN
DesignatedBy(k) ==
    {j \in ValidIds :
        /\ ToLower(Pkg.meta[k].property) \in {S_identifierType, S_scheme}
        /\ ToLower(Pkg.meta[k].content) \in IsbnSchemes
        /\ Pkg.meta[k].refines \in {Pkg.ids[j].id, <<"#">> \o Pkg.ids[j].id}}
Designating == {k \in 1..Len(Pkg.meta) : DesignatedBy(k) # {}}

\* C16: the ISBN returned is the first valid candidate in the stage order:
\* the first scheme-tagged identifier if any is valid, wherever it stands;
\* else the identifier the first valid refinement designates; else the first
\* valid identifier in document order; else, the raw-text scan being
\* consulted only when no earlier stage had a valid candidate, the first
\* valid raw element of a document without identifier elements.
C16_StageOrder ==
    (isbnOut # NotCalled /\ Opened) =>
        IF TaggedIds # {}
        THEN isbnOut = FoundISBN(Digits(Pkg.ids[MinOf(TaggedIds)].value))
        ELSE IF Designating # {}
        THEN \E j \in DesignatedBy(MinOf(Designating)) :
                isbnOut = FoundISBN(Digits(Pkg.ids[j].value))
        ELSE IF ValidIds # {}
        THEN isbnOut = FoundISBN(Digits(Pkg.ids[MinOf(ValidIds)].value))
        ELSE IF isbnOut.err = "nil"
        THEN /\ Pkg.ids = << >> /\ ValidRaw # {}
             /\ isbnOut.isbn = Digits(Pkg.rawIdents[MinOf(ValidRaw)])
        ELSE Pkg.ids # << >> \/ ValidRaw = {}

\* a scheme-tagged ISBN won over the untagged 10-digit identifier before it
C16_Witness ==
    /\ isbnOut # NotCalled /\ Opened
    /\ Pkg.ids = <<IdBare10, IdIsbn>>
    /\ isbnOut = FoundISBN(Digits(IdIsbn.value))


\* the package document as cover extraction opens it, and the manifest item
\* its cover meta names
OpenedForCover == OpenPackage(req.file, FALSE).err = "nil"
CoverPkg == req.file.entries[OpenPackage(req.file, FALSE).idx].content
CoverPkgPath == OpenPackage(req.file, FALSE).opfPath
NamedItems == CoverItems(CoverPkg.items, CoverID(CoverPkg.meta))
NamedItem == CoverPkg.items[MinOf(NamedItems)]
CoverNamed ==
    /\ OpenedForCover /\ CoverID(CoverPkg.meta) # << >>
    /\ NamedItems # {} /\ NamedItem.href # << >>

\* the containing directory of a path: up to and including its last "/",
\* empty when it has none
DirOf(p) ==
    IF \E i \in 1..Len(p) : p[i] = "/"
    THEN SubSeq(p, 1, MaxOf({i \in 1..Len(p) : p[i] = "/"})) ELSE << >>
Slashed(p) == [i \in 1..Len(p) |-> IF p[i] = "\\" THEN "/" ELSE p[i]]
ResolvedCover == Slashed(DirOf(CoverPkgPath) \o NamedItem.href)
AtResolved == {i \in 1..Len(req.file.entries) :
                  req.file.entries[i].name = ResolvedCover /\ req.file.entries[i].readable}

\* C17: cover extraction reads the entry at the package document's
\* directory (empty at the archive root) followed by the item's href, "\"
\* made "/", and returns exactly that entry's bytes.
C17_CoverPathResolved ==
    (coverOut # NotCalled /\ CoverNamed) =>
        /\ AtResolved # {} =>
              /\ coverOut.err = "nil"
              /\ \E i \in AtResolved : coverOut.bytes = req.file.entries[i].content.data
        /\ coverOut.err = "nil" =>
              \E i \in AtResolved : coverOut.bytes = req.file.entries[i].content.data


\* C18: a successful cover extraction returns the media type the matching
\* manifest item declares, image/jpeg when it declares none, and never an
\* empty media type.
C18_MediaTypeDefault ==
    (coverOut # NotCalled /\ coverOut.err = "nil") =>
        /\ CoverNamed
        /\ coverOut.mediaType # << >>
        /\ coverOut.mediaType =
              (IF NamedItem.mediaType = << >> THEN S_imageJpeg ELSE NamedItem.mediaType)

\* a cover whose item declares no media type came back as image/jpeg
C18_Witness ==
    /\ coverOut # NotCalled /\ coverOut.err = "nil"
    /\ NamedItem.mediaType = << >>
    /\ coverOut.mediaType = S_imageJpeg /\ coverOut.bytes = B_jpg


\* the entries (by index) a path names, case and "\" disregarded
NamedBy(p) ==
    {i \in 1..Len(req.file.entries) :
        ToLower(Slashed(req.file.entries[i].name)) = ToLower(Slashed(p))}
EntryBy(p) == req.file.entries[MinOf(NamedBy(p))]

\* the earliest stage at which the archive handed to the inspector fails, or
\* "resolve" when the package document is parsed
FailingStage ==
    IF req.file.size = 0 \/ ~req.file.zip THEN "archive"
    ELSE IF NamedBy(ContainerPath) = {} THEN "container"
    ELSE IF ~EntryBy(ContainerPath).readable THEN "container"
    ELSE IF EntryBy(ContainerPath).content.xml # "container" THEN "containerxml"
    ELSE IF EntryBy(ContainerPath).content.rootfiles = << >> THEN "containerxml"
    ELSE IF NamedBy(EntryBy(ContainerPath).content.rootfiles[1]) = {} THEN "package"
    ELSE IF ~EntryBy(EntryBy(ContainerPath).content.rootfiles[1]).readable THEN "package"
    ELSE IF EntryBy(EntryBy(ContainerPath).content.rootfiles[1]).content.xml # "package"
    THEN "packagexml"
    ELSE "resolve"

\* C19: ISBN extraction always returns, and fails with the failure of the
\* earliest failing stage: invalid archive for empty or non-ZIP input,
\* container-not-found without META-INF/container.xml (in any case),
\* malformed container for unparseable container XML or no root file,
\* malformed package for an unparseable package document; no-ISBN only
\* when all these stages passed and no stage had a valid candidate.
C19_EarliestFailure ==
    isbnOut # NotCalled =>
        /\ isbnOut.err # "nil" => isbnOut.isbn = << >>
        /\ isbnOut.err \in
              CASE FailingStage = "archive" -> {"empty", "notzip"}
                [] FailingStage = "container" -> {"container"}
                [] FailingStage = "containerxml" -> {"containerxml", "norootfile"}
                [] FailingStage = "package" -> {"opf"}
                [] FailingStage = "packagexml" -> {"opfxml"}
                [] FailingStage = "resolve" -> {"nil", "noisbn"}
        /\ isbnOut.err = "noisbn" =>
              /\ FailingStage = "resolve"
              /\ ValidIds = {}
              /\ Pkg.ids # << >> \/ ValidRaw = {}

\* an archive without a container entry failed as container-not-found,
\* although its package document carries an ISBN
C19_Witness ==
    /\ isbnOut # NotCalled
    /\ req.file = Archive(<<FullOpf>>)
    /\ isbnOut = [isbn |-> << >>, err |-> "container"]


\* the meta elements (by index) named "cover" in any case, and those of them
\* that carry an item id
CoverNames == {k \in 1..Len(CoverPkg.meta) : ToLower(CoverPkg.meta[k].name) = S_cover}
CoverRefs == {k \in CoverNames : CoverPkg.meta[k].content # << >>}
ItemsOf(k) == {i \in 1..Len(CoverPkg.items) : CoverPkg.items[i].id = CoverPkg.meta[k].content}
ItemOf(k) == CoverPkg.items[MinOf(ItemsOf(k))]
InDirectory == \E i \in 1..Len(CoverPkgPath) : CoverPkgPath[i] = "/"
Failed(e) == coverOut = [bytes |-> << >>, mediaType |-> << >>, err |-> e]

\* C20 as stated: once the container and package stages have passed, cover
\* extraction fails with cover-meta-not-found when no meta element is named
\* "cover", with cover-item-not-found when the meta's content matches no
\* manifest item, with cover-file-not-found when the resolved entry is
\* absent, and every failure returns no bytes and no media type.
C20_FailureOrderAsStated ==
    (coverOut # NotCalled /\ OpenedForCover) =>
        /\ coverOut.err # "nil" => Failed(coverOut.err)
        /\ IF CoverNames = {} THEN Failed("nocovermeta")
           ELSE IF ItemsOf(MinOf(CoverNames)) = {} THEN Failed("nocoveritem")
           ELSE IF NamedBy(Slashed(DirOf(CoverPkgPath)
                                   \o ItemOf(MinOf(CoverNames)).href)) = {}
           THEN Failed("nocoverfile")
           ELSE TRUE

\* C20, amended: cover-meta-not-found when no meta element is named "cover"
\* with a non-empty content; cover-item-not-found when the content of the
\* first such meta matches no manifest item or the first matching item has
\* no href; after that the only failure is cover-file-not-found, returned
\* (for a package document inside a directory) when the resolved entry is
\* absent; every failure returns no bytes and no media type.
C20_FailureOrder ==
    (coverOut # NotCalled /\ OpenedForCover) =>
        /\ coverOut.err # "nil" => Failed(coverOut.err)
        /\ IF CoverRefs = {} THEN Failed("nocovermeta")
           ELSE IF ItemsOf(MinOf(CoverRefs)) = {} THEN Failed("nocoveritem")
           ELSE IF ItemOf(MinOf(CoverRefs)).href = << >> THEN Failed("nocoveritem")
           ELSE IF InDirectory /\ NamedBy(Slashed(DirOf(CoverPkgPath)
                                          \o ItemOf(MinOf(CoverRefs)).href)) = {}
           THEN Failed("nocoverfile")
           ELSE coverOut.err \in {"nil", "nocoverfile"}

\* a package whose only cover meta has an empty content failed as
\* cover-meta-not-found
C20_Witness ==
    /\ coverOut # NotCalled /\ OpenedForCover
    /\ CoverPkg.meta = <<MetaCoverBlank>> /\ CoverPkg.items = <<ItemJpg>>
    /\ Failed("nocovermeta")


StoredBy(c) == {o \in s3 : o.by = c}
PutSites == {"putA", "putC", "putR"}

\* C22: when the insert fails after the primary file (and possibly a cover)
\* was stored, the request answers the persist error and deletes nothing:
\* every object a PUT stored is still in object storage, and no record
\* refers to it.
C22_PersistFailureOrphans ==
    (Answered /\ outcome["insert"] = "err") =>
        /\ resp = ErrorResponse(500, "failed to save book record")
        /\ db = {}
        /\ \E o \in StoredBy("putA") : o.key = bookKey
        /\ \A c \in PutSites : outcome[c] = "ok" => StoredBy(c) # {}

\* the insert failed with the primary file and the extracted cover stored
C22_Witness ==
    /\ Answered /\ outcome["insert"] = "err"
    /\ StoredBy("putA") # {} /\ StoredBy("putC") # {}
    /\ db = {}

\* C25: Upload never deletes from object storage; so when the primary PUT
\* failed and the cover PUT of branch C succeeded, the request answers the
\* storage error and the cover object stays in storage with no record.
C25_NoStorageDelete ==
    [][/\ s3 \subseteq s3'
       /\ (Answered' /\ outcome'["putA"] = "err" /\ outcome'["putC"] = "ok") =>
             /\ resp' = ErrorResponse(500, "failed to upload to storage")
             /\ StoredBy("putC")' # {} /\ db' = {}]_vars

\* the primary PUT failed, the cover is stored and the request is answered
C25_Witness ==
    /\ Answered /\ outcome["putA"] = "err" /\ outcome["putC"] = "ok"
    /\ StoredBy("putC") # {} /\ StoredBy("putA") = {}


\* the cover PUTs of the request that succeeded, and the objects they stored
CoverPutsOk == {c \in {"putC", "putR"} : outcome[c] = "ok"}
CoverObjects == StoredBy("putC") \cup StoredBy("putR")

\* C26: an upload stores and references at most one cover object: the
\* re-host is never attempted once branch C's cover PUT succeeded, and a
\* record has a CoverS3Key only if its format is epub and exactly one cover
\* PUT of the request succeeded, whose object the key names.
C26_AtMostOneCover ==
    /\ outcome["putC"] = "ok" => (started["download"] = 0 /\ started["putR"] = 0)
    /\ Cardinality(CoverObjects) <= 1
    /\ \A b \in db :
          b.CoverS3Key # NoKey =>
              /\ b.Format = "epub"
              /\ Cardinality(CoverPutsOk) = 1
              /\ \E o \in CoverObjects : o.key = b.CoverS3Key

\* a record names the re-hosted cover, stored after branch C's PUT failed
C26_Witness ==
    /\ outcome["putC"] = "err" /\ outcome["putR"] = "ok"
    /\ \E b \in db : b.CoverS3Key # NoKey /\ StoredBy("putR") # {}


\* C27: the ISBN of a record, like every enrichment field, comes from the
\* catalog result only: when ISBN extraction succeeded and the lookup
\* failed, the inserted record has no ISBN and no enrichment at all, the
\* extracted ISBN being dropped.
C27_ExtractedISBNDropped ==
    \A b \in db :
        /\ (outcome["extractISBN"] = "ok" /\ outcome["lookup"] = "err") =>
              (b.ISBN = << >> /\ NoEnrichment(b))
        /\ meta.nil => NoEnrichment(b)
        /\ ~meta.nil => b.ISBN = meta.ISBN

\* a record was inserted for an EPUB whose ISBN was extracted and whose
\* lookup failed
C27_Witness ==
    /\ outcome["extractISBN"] = "ok" /\ outcome["lookup"] = "err"
    /\ isbn # << >>
    /\ \E b \in db : b.Format = "epub" /\ b.ISBN = << >>


\* one of the request's two indicators says EPUB
SaysEpub == ReqExt = S_extEpub \/ HasPrefix(req.ctype, contentTypeEPUB)
SaysPdf == ReqExt = S_extPdf \/ HasPrefix(req.ctype, contentTypePDF)

\* C28: classification gives EPUB priority: a file is treated as EPUB
\* (branches B and C run, the primary object is stored with the EPUB content
\* type) whenever its extension is .epub or its declared content type starts
\* with application/epub+zip, whatever the other indicator says, and as PDF
\* only when neither indicator says EPUB.
C28_EpubPriority ==
    format # "" =>
        /\ format = (IF SaysEpub THEN "epub" ELSE "pdf")
        /\ contentType = (IF SaysEpub THEN contentTypeEPUB ELSE contentTypePDF)
        /\ \A o \in StoredBy("putA") : o.contentType = contentType
        /\ \A c \in {"extractISBN", "extractCover"} :
              /\ ~SaysEpub => started[c] = 0
              /\ (SaysEpub /\ PastJoin) => started[c] = 1

\* a file named .pdf and declared application/epub+zip was handled as EPUB
C28_Witness ==
    /\ Answered /\ req.filename = N_pdf /\ req.ctype = contentTypeEPUB
    /\ format = "epub" /\ started["extractISBN"] = 1 /\ started["extractCover"] = 1
    /\ \E o \in StoredBy("putA") : o.contentType = contentTypeEPUB


(***************************************************************************)
(* Further properties of the inspector.                                    *)
(***************************************************************************)
\* C24: the raw-text scan runs only when no identifier element was parsed:
\* a package document with at least one identifier element, none of them
\* of length 10 or 13, yields no-ISBN-found even when its raw text holds an
\* element the scan would accept; and an ISBN that is no identifier's comes
\* from a document without identifier elements.
C24_RawScanOnlyWithoutIds ==
    (isbnOut # NotCalled /\ Opened) =>
        /\ (Pkg.ids # << >> /\ ValidIds = {}) =>
              isbnOut = [isbn |-> << >>, err |-> "noisbn"]
        /\ (isbnOut.err = "nil"
              /\ \A i \in 1..Len(Pkg.ids) : Digits(Pkg.ids[i].value) # isbnOut.isbn) =>
              Pkg.ids = << >>

\* an 11-digit identifier was parsed, the raw text holds a 10-digit one, and
\* no ISBN was found
C24_Witness ==
    /\ isbnOut # NotCalled /\ Opened
    /\ Pkg.ids = <<IdLong>> /\ ValidRaw # {}
    /\ isbnOut.err = "noisbn"


(***************************************************************************)
(* The users API (handlers/users.go, store/user.go) behind the admin-only  *)
(* route group.  A request is served in steps, one per call to the         *)
(* database, so that the requests of several clients interleave.           *)
(***************************************************************************)
\* what the upload handler and the inspector own
upload == <<req, pc, wg, resp, locals, slots, branchs, clock, ghost, cancel, inspect>>

\* The most users ever inserted.
MaxUsers == 2

RoleAdmin  == "admin"
RoleViewer == "viewer"
RoleEditor == "editor"
RoleGuest  == "guest"
ValidRoles == {RoleAdmin, RoleViewer, RoleEditor, RoleGuest}

roleValid(role) == role \in ValidRoles

\* store/user.go
AdminsCount(us)     == Cardinality({u \in us : u.role = RoleAdmin})
UserByEmail(us, e)  == {u \in us : u.email = e}
UserByID(us, id)    == {u \in us : u.id = id}
DBCreateUser(us, u) == us \cup {u}
DBDeleteUser(us, id) == {u \in us : u.id # id}

\* UpdateOne with $set of the fields given; no document matches a missing id
DBUpdateUser(us, id, email, role) ==
    {IF u.id # id THEN u
     ELSE [u EXCEPT !.email = IF email # NoValue THEN email ELSE @,
                    !.role  = IF role # NoValue THEN role ELSE @] : u \in us}

\* main.go: the route groups and the roles each admits
AdminOps  == {"createUser", "updateUser", "deleteUser", "delete", "viewByGuest"}
ReaderOps == {"list", "get", "download", "sendToKindle"}
Allowed(op, role) ==
    IF op \in AdminOps THEN role = RoleAdmin
    ELSE role \in {RoleAdmin, RoleEditor, RoleViewer, RoleGuest}

Serving(c, op, at) ==
    /\ pending[c].op = op /\ pending[c].pc = at
    /\ Allowed(op, pending[c].role)

\* the handler of client c returns with this status and body; its locals
\* are gone
Respond(c, status, body) ==
    [pending EXCEPT ![c] = [NoCall EXCEPT !.op = pending[c].op,
                                          !.status = status, !.body = body,
                                          !.pc = "done"]]

\* middleware.RequireAdmin, RequireAnyRole: 403 for a role not admitted
Forbidden(c) ==
    /\ pending[c].pc = "start"
    /\ ~Allowed(pending[c].op, pending[c].role)
    /\ pending' = Respond(c, 403, {})
    /\ UNCHANGED <<db, s3, deleted, users, userSeq, upload>>

UserEmails == {"a", "b"}
SeedUsers ==
    { {[id |-> 1, email |-> "a", role |-> RoleAdmin]},
      {[id |-> 1, email |-> "a", role |-> RoleAdmin],
       [id |-> 2, email |-> "b", role |-> RoleAdmin]},
      {[id |-> 1, email |-> "a", role |-> RoleAdmin],
       [id |-> 2, email |-> "b", role |-> RoleViewer]} }

Creating == {c \in Clients : pending[c].op = "createUser" /\ pending[c].pc # "done"}

\* a signed-in user sends a request to the users API; the role is the one
\* of the token (middleware.Auth), and DeleteUser alone reads the caller's id
UsersCall(c, op, caller, id, args) ==
    /\ pending[c].pc \in {"idle", "done"}
    /\ caller \in users
    /\ op = "createUser" => userSeq + Cardinality(Creating) < MaxUsers
    /\ pending' = [pending EXCEPT ![c] =
                      [NoCall EXCEPT !.op = op, !.role = caller.role,
                                     !.caller = IF op = "deleteUser"
                                                THEN caller.id ELSE 0,
                                     !.id = id,
                                     !.arg = args, !.pc = "start"]]
    /\ UNCHANGED <<db, s3, deleted, users, userSeq, upload>>

CreateRole(c) == IF pending[c].arg.role = "" THEN RoleViewer ELSE pending[c].arg.role

\* UsersHandler.CreateUser up to the lookup by email
CreateUserCheck(c) ==
    /\ Serving(c, "createUser", "start")
    /\ pending' =
         IF pending[c].arg.email = "" THEN Respond(c, 400, {})
         ELSE IF CreateRole(c) = RoleAdmin THEN Respond(c, 400, {})
         ELSE IF ~roleValid(CreateRole(c)) THEN Respond(c, 400, {})
         ELSE IF UserByEmail(users, pending[c].arg.email) # {} THEN Respond(c, 409, {})
         ELSE [pending EXCEPT ![c].pc = "insert"]
    /\ UNCHANGED <<db, s3, deleted, users, userSeq, upload>>

\* UsersHandler.CreateUser: the insert and the 201
CreateUserInsert(c) ==
    /\ Serving(c, "createUser", "insert")
    /\ LET u == [id |-> userSeq + 1, email |-> pending[c].arg.email,
                 role |-> CreateRole(c)]
       IN  /\ users' = DBCreateUser(users, u)
           /\ userSeq' = userSeq + 1
           /\ pending' = Respond(c, 201, {})
    /\ UNCHANGED <<db, s3, deleted, upload>>

\* UsersHandler.UpdateUser up to the checks of the fields given
UpdateUserRead(c) ==
    /\ Serving(c, "updateUser", "start")
    /\ LET p == pending[c]
           user == UserByID(users, p.id)
       IN  pending' =
             IF user = {} THEN Respond(c, 404, {})
             ELSE IF p.arg.email = "" THEN Respond(c, 400, {})
             ELSE IF /\ p.arg.email # NoValue
                     /\ \E e \in UserByEmail(users, p.arg.email) : e.id # p.id
                  THEN Respond(c, 409, {})
             ELSE IF p.arg.role # NoValue /\ ~roleValid(p.arg.role)
                  THEN Respond(c, 400, {})
             ELSE [pending EXCEPT ![c].pc = "write"]
    /\ UNCHANGED <<db, s3, deleted, users, userSeq, upload>>

\* UsersHandler.UpdateUser: the update, the second lookup and the answer;
\* userToResponse of a user deleted meanwhile dereferences nil, and the
\* Recoverer answers 500
UpdateUserWrite(c) ==
    /\ Serving(c, "updateUser", "write")
    /\ users' = DBUpdateUser(users, pending[c].id, pending[c].arg.email,
                             pending[c].arg.role)
    /\ pending' = IF UserByID(users', pending[c].id) = {}
                  THEN Respond(c, 500, {})
                  ELSE Respond(c, 200, {})
    /\ UNCHANGED <<db, s3, deleted, userSeq, upload>>

\* UsersHandler.DeleteUser up to the lookup of the user
DeleteUserRead(c) ==
    /\ Serving(c, "deleteUser", "start")
    /\ LET p == pending[c]
           user == UserByID(users, p.id)
       IN  pending' =
             IF p.caller = p.id THEN Respond(c, 400, {})
             ELSE IF user = {} THEN Respond(c, 404, {})
             ELSE [pending EXCEPT
                     ![c].pc = IF \E u \in user : u.role = RoleAdmin
                               THEN "count" ELSE "delete"]
    /\ UNCHANGED <<db, s3, deleted, users, userSeq, upload>>

\* UsersHandler.DeleteUser: the count of admins before an admin is deleted
DeleteUserCount(c) ==
    /\ Serving(c, "deleteUser", "count")
    /\ pending' = IF AdminsCount(users) <= 1 THEN Respond(c, 400, {})
                  ELSE [pending EXCEPT ![c].pc = "delete"]
    /\ UNCHANGED <<db, s3, deleted, users, userSeq, upload>>

\* UsersHandler.DeleteUser: the deletion and the 204
DeleteUserWrite(c) ==
    /\ Serving(c, "deleteUser", "delete")
    /\ users' = DBDeleteUser(users, pending[c].id)
    /\ pending' = Respond(c, 204, {})
    /\ UNCHANGED <<db, s3, deleted, userSeq, upload>>

CreateArgs == {[NoArgs EXCEPT !.email = "c", !.role = r] : r \in {"", RoleAdmin}}
                 \cup {[NoArgs EXCEPT !.email = "a", !.role = ""]}
UpdateArgs == {[NoArgs EXCEPT !.role = r] : r \in {RoleAdmin, RoleViewer, "owner"}}
                 \cup {[NoArgs EXCEPT !.email = "b"]}

InitUsers ==
    /\ req = NoRequest
    /\ db = {} /\ s3 = {}
    /\ users \in SeedUsers /\ userSeq = Cardinality(users)
    /\ Blank

\* the requests to the users API
UsersRequest(c) ==
    \E caller \in users, id \in 1..MaxUsers :
       \/ \E a \in CreateArgs : UsersCall(c, "createUser", caller, 0, a)
       \/ \E a \in UpdateArgs : UsersCall(c, "updateUser", caller, id, a)
       \/ UsersCall(c, "deleteUser", caller, id, NoArgs)

NextUsers ==
    \E c \in Clients :
       \/ UsersRequest(c)
       \/ Forbidden(c)
       \/ CreateUserCheck(c)
       \/ CreateUserInsert(c)
       \/ UpdateUserRead(c)
       \/ UpdateUserWrite(c)
       \/ DeleteUserRead(c)
       \/ DeleteUserCount(c)
       \/ DeleteUserWrite(c)

SpecUsers == InitUsers /\ [][NextUsers]_vars

\* C30: from a state with an admin, after any interleaving of CreateUser,
\* UpdateUser and DeleteUser requests sent by admins, some user has role
\* admin.
C30_AdminRemains == AdminsCount(users) >= 1


(***************************************************************************)
(* The books API (handlers/books.go, the books store) behind the reader    *)
(* and admin route groups.  The library holds the records and objects of   *)
(* earlier uploads; a request is served in steps, one per call that other  *)
(* requests can interleave with.                                           *)
(***************************************************************************)
\* The most books in the library.
MaxBooks == 2

\* the record and the objects of upload number i: every upload stores the
\* primary file, the odd ones an extracted cover as well; the upload handler
\* leaves ViewByGuest at its zero value
PrimaryKeyOf(i) == [prefix |-> S_books, uuid |-> ToString(i), ext |-> S_extEpub]
CoverKeyOf(i) ==
    IF i % 2 = 1 THEN [prefix |-> S_covers, uuid |-> ToString(i), ext |-> S_jpgExt]
    ELSE NoKey
UploadedBook(i) ==
    [ZeroBook EXCEPT !.ID = i, !.Format = "epub", !.S3Key = PrimaryKeyOf(i),
                     !.CoverS3Key = CoverKeyOf(i)]
UploadedObjects(i) ==
    {StoredObject(PrimaryKeyOf(i), contentTypeEPUB, <<"f">>, "putA")}
      \cup (IF CoverKeyOf(i) = NoKey THEN {}
            ELSE {StoredObject(CoverKeyOf(i), S_imageJpeg, <<"c">>, "putC")})

\* the books store
AllBooks(d) == d

\* variant: the guest listing is not filtered
BooksVisibleToGuest_all(d) == d

\* Find with the filter viewByGuest: true
BooksVisibleToGuest(d) == {b \in d : b.ViewByGuest}

BookByID(d, id) == {b \in d : b.ID = id}

\* variant: the record is found and left in the collection
DeleteBook_keep(d, id) == d

\* FindOneAndDelete: the collection without the record of this id
DeleteBook(d, id) == {b \in d : b.ID # id}

\* UpdateOne with $set viewByGuest; no document matches a missing id
UpdateBookViewByGuest(d, id, v) ==
    {IF b.ID = id THEN [b EXCEPT !.ViewByGuest = v] ELSE b : b \in d}

\* S3Service.Delete of the keys given
S3Delete(objects, keys) == {o \in objects : o.key \notin keys}

\* role == models.RoleGuest && !book.ViewByGuest
GuestRefused(role, b) == role = RoleGuest /\ ~b.ViewByGuest

\* the handler of client c returns with this status, having delivered these
\* records; its locals are gone
Deliver(c, status, body) ==
    [pending EXCEPT ![c] = [NoCall EXCEPT !.op = pending[c].op,
                                          !.role = pending[c].role,
                                          !.id = pending[c].id,
                                          !.issued = pending[c].issued,
                                          !.status = status, !.body = body,
                                          !.pc = "done"]]

\* a signed-in user sends a request to the books API
BooksCall(c, op, role, id, flag) ==
    /\ pending[c].pc \in {"idle", "done"}
    /\ pending' = [pending EXCEPT ![c] =
                      [NoCall EXCEPT !.op = op, !.role = role, !.id = id,
                                     !.arg = [NoArgs EXCEPT !.flag = flag],
                                     !.pc = "start"]]
    /\ UNCHANGED <<db, s3, deleted, users, userSeq, upload>>

\* BooksHandler.List
BooksList(c, ok) ==
    /\ Serving(c, "list", "start")
    /\ pending' =
         IF ~ok THEN Deliver(c, 500, {})
         ELSE IF pending[c].role = RoleGuest
              THEN Deliver(c, 200, BooksVisibleToGuest(db))
              ELSE Deliver(c, 200, AllBooks(db))
    /\ UNCHANGED <<db, s3, deleted, users, userSeq, upload>>

\* the guard of Get, Download and SendToKindle: the record of the id, or
\* not-found when there is none or a guest may not see it
Visible(c) ==
    {b \in BookByID(db, pending[c].id) : ~GuestRefused(pending[c].role, b)}

\* BooksHandler.Get
BooksGet(c) ==
    /\ Serving(c, "get", "start")
    /\ pending' = IF Visible(c) = {} THEN Deliver(c, 404, {})
                  ELSE Deliver(c, 200, Visible(c))
    /\ UNCHANGED <<db, s3, deleted, users, userSeq, upload>>

\* BooksHandler.Download: the presigned URL of the record's primary key
BooksDownload(c, ok) ==
    /\ Serving(c, "download", "start")
    /\ pending' = IF Visible(c) = {} THEN Deliver(c, 404, {})
                  ELSE IF ~ok THEN Deliver(c, 500, {})
                  ELSE Deliver(c, 200, Visible(c))
    /\ UNCHANGED <<db, s3, deleted, users, userSeq, upload>>

\* BooksHandler.SendToKindle up to the guest check
KindleCheck(c) ==
    /\ Serving(c, "sendToKindle", "start")
    /\ pending' = IF Visible(c) = {} THEN Deliver(c, 404, {})
                  ELSE [pending EXCEPT ![c].found = Visible(c), ![c].pc = "send"]
    /\ UNCHANGED <<db, s3, deleted, users, userSeq, upload>>

\* BooksHandler.SendToKindle: the mail configuration, the object and the
\* mail; the file of the record read before is sent, or the request fails
KindleSend(c, ok) ==
    /\ Serving(c, "sendToKindle", "send")
    /\ pending' =
         IF ok /\ \E b \in pending[c].found, o \in s3 : o.key = b.S3Key
         THEN Deliver(c, 200, pending[c].found)
         ELSE Deliver(c, 500, {})
    /\ UNCHANGED <<db, s3, deleted, users, userSeq, upload>>

\* BooksHandler.PatchViewByGuest: the update
ViewByGuestUpdate(c) ==
    /\ Serving(c, "viewByGuest", "start")
    /\ db' = UpdateBookViewByGuest(db, pending[c].id, pending[c].arg.flag)
    /\ pending' = [pending EXCEPT ![c].pc = "reread"]
    /\ UNCHANGED <<s3, deleted, users, userSeq, upload>>

\* BooksHandler.PatchViewByGuest: the lookup after the update;
\* setCoverURLIfExtracted of a missing record dereferences nil, and the
\* Recoverer answers 500
ViewByGuestReply(c) ==
    /\ Serving(c, "viewByGuest", "reread")
    /\ pending' = IF BookByID(db, pending[c].id) = {} THEN Deliver(c, 500, {})
                  ELSE Deliver(c, 200, BookByID(db, pending[c].id))
    /\ UNCHANGED <<db, s3, deleted, users, userSeq, upload>>

\* BooksHandler.Delete: DB.DeleteBook finds and removes the record in one
\* operation and returns its keys
DeleteRecord(c) ==
    /\ Serving(c, "delete", "start")
    /\ db' = DeleteBook(db, pending[c].id)
    /\ pending' = IF BookByID(db, pending[c].id) = {} THEN Deliver(c, 404, {})
                  ELSE [pending EXCEPT ![c].found = BookByID(db, pending[c].id),
                                       ![c].pc = "objects"]
    /\ UNCHANGED <<s3, deleted, users, userSeq, upload>>

\* the non-empty keys of the record a Delete removed
KeysOf(c) ==
    {k \in UNION {{b.S3Key, b.CoverS3Key} : b \in pending[c].found} : k # NoKey}

\* BooksHandler.Delete: the storage deletions (their errors are dropped)
\* and the 204
DeleteObjects(c) ==
    /\ Serving(c, "delete", "objects")
    /\ s3' = S3Delete(s3, KeysOf(c))
    /\ deleted' = deleted (+) SetToBag(KeysOf(c))
    /\ pending' = [Deliver(c, 204, {}) EXCEPT ![c].issued = Cardinality(KeysOf(c))]
    /\ UNCHANGED <<db, users, userSeq, upload>>

BookRoles == {RoleAdmin, RoleGuest}

InitLibrary ==
    /\ req = NoRequest
    /\ db = {UploadedBook(i) : i \in 1..MaxBooks}
    /\ s3 = UNION {UploadedObjects(i) : i \in 1..MaxBooks}
    /\ users = {} /\ userSeq = 0
    /\ Blank

\* the requests to the books API
BooksRequest(c) ==
    \E role \in BookRoles :
       \/ BooksCall(c, "list", role, 0, FALSE)
       \/ \E id \in 1..MaxBooks :
             \/ \E op \in {"get", "download", "sendToKindle", "delete"} :
                   BooksCall(c, op, role, id, FALSE)
             \/ \E v \in BOOLEAN : BooksCall(c, "viewByGuest", role, id, v)

NextLibrary ==
    \E c \in Clients :
       \/ BooksRequest(c)
       \/ Forbidden(c)
       \/ \E ok \in BOOLEAN : BooksList(c, ok)
       \/ BooksGet(c)
       \/ \E ok \in BOOLEAN : BooksDownload(c, ok)
       \/ KindleCheck(c)
       \/ \E ok \in BOOLEAN : KindleSend(c, ok)
       \/ ViewByGuestUpdate(c)
       \/ ViewByGuestReply(c)
       \/ DeleteRecord(c)
       \/ DeleteObjects(c)

SpecLibrary == InitLibrary /\ [][NextLibrary]_vars


(***************************************************************************)
(* Properties of the books API.                                            *)
(***************************************************************************)
\* the keys upload number i stored
KeysOfBook(i) == {k \in {PrimaryKeyOf(i), CoverKeyOf(i)} : k # NoKey}

\* the Delete requests that removed the record of book i and have not yet
\* deleted its objects
Removing(i) ==
    {c \in Clients : /\ pending[c].op = "delete" /\ pending[c].pc = "objects"
                     /\ pending[c].id = i}

\* the Delete requests for book i that were answered with this status
DeleteAnswered(i, status) ==
    {c \in Clients : /\ pending[c].op = "delete" /\ pending[c].pc = "done"
                     /\ pending[c].id = i /\ pending[c].status = status}

Hidden == {b \in db : ~b.ViewByGuest}

\* client c, a guest, takes a step of its request
GuestStep(c) ==
    /\ pending[c].role = RoleGuest
    /\ pending[c].pc \in {"start", "send"}
    /\ pending'[c] # pending[c]

\* C23: a request whose role is guest never obtains a book whose
\* viewByGuest flag is false: what List, Get, Download and SendToKindle
\* hand to a guest are records the request read with the flag true
\* (SendToKindle sends the record it read and checked), and Get, Download
\* and SendToKindle answer 404 for a record whose flag is false, whatever
\* toggles went before.
C23_GuestNeverSeesHidden ==
    [][\A c \in Clients : GuestStep(c) =>
          /\ \A b \in pending'[c].body \cup pending'[c].found : b.ViewByGuest
          /\ pending[c].pc = "start" =>
                /\ pending'[c].body \cup pending'[c].found \subseteq db
                /\ pending'[c].body \cap Hidden = {}
          /\ pending[c].pc = "send" => pending'[c].body \subseteq pending[c].found
          /\ ( /\ pending[c].pc = "start"
               /\ pending[c].op \in {"get", "download", "sendToKindle"}
               /\ \E b \in Hidden : b.ID = pending[c].id ) =>
                 pending'[c].pc = "done" /\ pending'[c].status = 404
          /\ (pending[c].op = "list" /\ pending'[c].status = 200) =>
                 pending'[c].body = db \ Hidden]_vars

\* after an admin made one book visible, a guest's List returned that book
\* and not the other, and a guest's Get of the other was answered 404
C23_Witness ==
    \E c, d \in Clients :
       /\ pending[c].role = RoleGuest /\ pending[c].op = "list"
       /\ pending[c].pc = "done" /\ pending[c].status = 200
       /\ pending[c].body # {} /\ Hidden # {}
       /\ pending[c].body = db \ Hidden
       /\ pending[d].role = RoleGuest /\ pending[d].op = "get"
       /\ pending[d].pc = "done" /\ pending[d].status = 404
       /\ \E b \in Hidden : b.ID = pending[d].id

=============================================================================
